---------------------------- MODULE Spec2Model ----------------------------
(***************************************************************************)
(* AgenticAssistant: the Orchestrator (routing, fan-out, streaming), the   *)
(* agent runtime contract (context assembly, response generation,          *)
(* persistence) and the memory extraction loop, modelled from              *)
(* src/AgenticAssistant.                                                   *)
(*                                                                         *)
(* Texts are sequences of atoms (one-character strings for user messages,  *)
(* whole tokens for generated text), so that concatenation, slicing,       *)
(* lower-casing and substring search are the operations the code applies.  *)
(***************************************************************************)
EXTENDS Integers, Sequences, FiniteSets, TLC

VARIABLES
    conversations,  \* the conversations table, in insertion (timestamp) order
    memory,         \* the memory table: per user, facts newest-first by last_updated
    tasks,          \* the tasks table, in insertion order
    active_game,    \* CreativeAgent.active_game, the attribute of the one instance
    document,       \* KnowledgeAgent: whether index and chunks are set, document_name
    streams,        \* per user: the suspended process_message_stream generator
    last,           \* the outcome of the call the last step completed
    requests,       \* the number of requests made so far
    probe           \* input and output of the pure function last applied

vars == <<conversations, memory, tasks, active_game, document, streams, last, requests, probe>>

sysVars == <<conversations, memory, tasks, active_game, document, streams, last, requests>>

----------------------------------------------------------------------------
(* Texts *)

Min(a, b) == IF a < b THEN a ELSE b

Max(a, b) == IF a > b THEN a ELSE b

\* s[:n]
Prefix(s, n) == SubSeq(s, 1, Min(n, Len(s)))

\* s[-n:]
LastN(s, n) == SubSeq(s, Max(1, Len(s) - n + 1), Len(s))

\* list(reversed(s))
Reverse(s) == [i \in 1..Len(s) |-> s[Len(s) + 1 - i]]

\* "".join(parts)
RECURSIVE Concat(_)
Concat(parts) == IF parts = <<>> THEN <<>> ELSE Head(parts) \o Concat(Tail(parts))

\* kw in s
Contains(s, kw) ==
    \E i \in 1..(Len(s) - Len(kw) + 1) : SubSeq(s, i, i + Len(kw) - 1) = kw

\* s.find(c) and s.rfind(c) as 1-based positions, 0 for Python's -1
Find(s, c) ==
    IF \E i \in 1..Len(s) : s[i] = c
    THEN CHOOSE i \in 1..Len(s) : s[i] = c /\ \A j \in 1..(i - 1) : s[j] # c
    ELSE 0

RFind(s, c) ==
    IF \E i \in 1..Len(s) : s[i] = c
    THEN CHOOSE i \in 1..Len(s) : s[i] = c /\ \A j \in (i + 1)..Len(s) : s[j] # c
    ELSE 0

UpperCase == <<"A","B","C","D","E","F","G","H","I","J","K","L","M",
               "N","O","P","Q","R","S","T","U","V","W","X","Y","Z">>

LowerCase == <<"a","b","c","d","e","f","g","h","i","j","k","l","m",
               "n","o","p","q","r","s","t","u","v","w","x","y","z">>

LowerChar(c) ==
    IF \E i \in 1..Len(UpperCase) : UpperCase[i] = c
    THEN LowerCase[CHOOSE i \in 1..Len(UpperCase) : UpperCase[i] = c]
    ELSE c

\* s.lower()
Lower(s) == [i \in 1..Len(s) |-> LowerChar(s[i])]

----------------------------------------------------------------------------
(* Orchestrator._fallback_routing: the keyword sets *)

\* src/AgenticAssistant/agents/orchestrator.py:209-211
productivity_keywords ==
    { <<"t","a","s","k">>,
      <<"t","o","d","o">>,
      <<"r","e","m","i","n","d">>,
      <<"s","c","h","e","d","u","l","e">>,
      <<"d","e","a","d","l","i","n","e">>,
      <<"p","r","i","o","r","i","t","y">> }

\* src/AgenticAssistant/agents/orchestrator.py:219-222
creative_keywords ==
    { <<"p","o","e","m">>,
      <<"s","t","o","r","y">>,
      <<"w","r","i","t","e">>,
      <<"c","r","e","a","t","e">>,
      <<"s","u","m","m","a","r","y">>,
      <<"b","r","a","i","n","s","t","o","r","m">>,
      <<"i","d","e","a","s">>,
      <<"j","o","k","e">>,
      <<"r","i","d","d","l","e">>,
      <<"g","a","m","e">>,
      <<"p","l","a","y">>,
      <<"f","u","n">>,
      <<"i","m","a","g","e">>,
      <<"p","i","c","t","u","r","e">>,
      <<"d","r","a","w">> }

\* src/AgenticAssistant/agents/orchestrator.py:230-233
researcher_keywords ==
    { <<"l","a","t","e","s","t">>,
      <<"c","u","r","r","e","n","t">>,
      <<"n","e","w","s">>,
      <<"t","o","d","a","y">>,
      <<"n","o","w">>,
      <<"r","e","c","e","n","t">>,
      <<"s","e","a","r","c","h">>,
      <<"w","h","o"," ","w","o","n">>,
      <<"w","h","a","t"," ","h","a","p","p","e","n","e","d">>,
      <<"s","t","o","c","k"," ","p","r","i","c","e">>,
      <<"w","e","a","t","h","e","r">>,
      <<"s","c","o","r","e">> }

\* src/AgenticAssistant/agents/orchestrator.py:241-243
knowledge_keywords ==
    { <<"d","o","c","u","m","e","n","t">>,
      <<"p","d","f">>,
      <<"u","p","l","o","a","d","e","d">>,
      <<"f","i","l","e">>,
      <<"a","c","c","o","r","d","i","n","g"," ","t","o">> }

\* src/AgenticAssistant/agents/orchestrator.py:251-253
memory_keywords ==
    { <<"r","e","m","e","m","b","e","r">>,
      <<"w","h","a","t"," ","d","o"," ","y","o","u"," ","k","n","o","w">>,
      <<"m","y"," ","p","r","e","f","e","r","e","n","c","e","s">>,
      <<"t","e","l","l"," ","m","e"," ","a","b","o","u","t"," ","m","e">> }


----------------------------------------------------------------------------
(* Generated text.  The text generator is an external collaborator: each   *)
(* call either raises or returns a text, a sequence of tokens.  A JSON     *)
(* member ("primary_agent": "chat") is one token; the tables below give    *)
(* the field and the value json.loads reads from it.                       *)

KnownAgents == {"chat", "productivity", "creative", "memory", "researcher", "knowledge"}

PyList(items) == [is_list |-> TRUE, items |-> items]

PyNull == [is_list |-> FALSE, items |-> <<>>]

\* Python's None where a text is expected
PyNone == <<"<None>">>

\* "pa:[chat]" is a tag that is a JSON list: a value Python cannot hash
PrimaryMember ==
    ("pa:chat" :> "chat") @@ ("pa:productivity" :> "productivity") @@
    ("pa:creative" :> "creative") @@ ("pa:memory" :> "memory") @@
    ("pa:researcher" :> "researcher") @@ ("pa:knowledge" :> "knowledge") @@
    ("pa:poet" :> "poet") @@ ("pa:[chat]" :> "[chat]")

Unhashable == {"[chat]"}

SecondaryMember ==
    ("sa:[]" :> PyList(<<>>)) @@
    ("sa:[creative]" :> PyList(<<"creative">>)) @@
    ("sa:[memory]" :> PyList(<<"memory">>)) @@
    ("sa:[memory,chat]" :> PyList(<<"memory", "chat">>)) @@
    ("sa:[poet,memory]" :> PyList(<<"poet", "memory">>)) @@
    ("sa:[chat,productivity]" :> PyList(<<"chat", "productivity">>)) @@
    ("sa:null" :> PyNull)

ReasoningMember == ("re:because" :> "because")

\* the members of the task details asked of the generator
TaskMember ==
    ("ti:Buy milk" :> [field |-> "title", value |-> <<"Buy milk">>]) @@
    ("pr:high" :> [field |-> "priority", value |-> <<"high">>]) @@
    ("pr:low" :> [field |-> "priority", value |-> <<"low">>]) @@
    ("pr:null" :> [field |-> "priority", value |-> PyNone]) @@
    ("du:2025-01-01" :> [field |-> "due_date", value |-> <<"2025-01-01">>]) @@
    ("du:null" :> [field |-> "due_date", value |-> PyNone])

\* the members of an extracted memory
MemoryMember ==
    ("key:color" :> [field |-> "key", value |-> <<"color">>]) @@
    ("key:food" :> [field |-> "key", value |-> <<"food">>]) @@
    ("key:__creative_game_state" :>
        [field |-> "key", value |-> <<"__creative_game_state">>]) @@
    ("value:blue" :> [field |-> "value", value |-> <<"blue">>]) @@
    ("value:green" :> [field |-> "value", value |-> <<"green">>]) @@
    ("value:null" :> [field |-> "value", value |-> PyNone]) @@
    ("context:why" :> [field |-> "context", value |-> <<"why">>])

\* the member of a stored game state
GameMember ==
    ("ag:word_chain" :> "word_chain") @@ ("ag:riddle" :> "riddle") @@
    ("ag:hangman" :> "hangman") @@ ("ag:word_game" :> "word_game") @@
    ("ag:null" :> "None")

\* the other member a stored game state may have
GameDataMember == ("gd:cat" :> <<"cat">>)

MemberField(tok) ==
    CASE tok \in DOMAIN PrimaryMember -> "primary_agent"
      [] tok \in DOMAIN SecondaryMember -> "secondary_agents"
      [] tok \in DOMAIN ReasoningMember -> "reasoning"
      [] tok \in DOMAIN TaskMember -> TaskMember[tok].field
      [] tok \in DOMAIN MemoryMember -> MemoryMember[tok].field
      [] tok \in DOMAIN GameMember -> "active_game"
      [] tok \in DOMAIN GameDataMember -> "game_data"

MemberValue(tok) ==
    CASE tok \in DOMAIN PrimaryMember -> PrimaryMember[tok]
      [] tok \in DOMAIN SecondaryMember -> SecondaryMember[tok]
      [] tok \in DOMAIN ReasoningMember -> ReasoningMember[tok]
      [] tok \in DOMAIN TaskMember -> TaskMember[tok].value
      [] tok \in DOMAIN MemoryMember -> MemoryMember[tok].value
      [] tok \in DOMAIN GameMember -> GameMember[tok]
      [] tok \in DOMAIN GameDataMember -> GameDataMember[tok]

IsMember(tok) ==
    tok \in (DOMAIN PrimaryMember) \cup (DOMAIN SecondaryMember) \cup
            (DOMAIN ReasoningMember) \cup (DOMAIN TaskMember) \cup
            (DOMAIN MemoryMember) \cup (DOMAIN GameMember) \cup (DOMAIN GameDataMember)

\* json.loads of "{" members "}": the dict of the members, a later member
\* replacing an earlier one of the same field
JsonObject(members) ==
    LET fields == {MemberField(members[i]) : i \in 1..Len(members)}
        lastOf(f) == CHOOSE i \in 1..Len(members) :
                        /\ MemberField(members[i]) = f
                        /\ \A j \in (i + 1)..Len(members) : MemberField(members[j]) # f
    IN [f \in fields |-> MemberValue(members[lastOf(f)])]

\* LLMClient.parse_json_response: the text from the first "{" to the last
\* "}" is handed to json.loads; None when there is no such text or when
\* json.loads raises JSONDecodeError
parse_json_response(response) ==
    LET start == Find(response, "{")
        end == RFind(response, "}")
    IN  IF start # 0 /\ end >= start
        THEN LET json_str == SubSeq(response, start, end)
                 members == SubSeq(json_str, 2, Len(json_str) - 1)
             IN  IF \A i \in 1..Len(members) : IsMember(members[i])
                 THEN [none |-> FALSE, value |-> JsonObject(members)]
                 ELSE [none |-> TRUE, value |-> <<>>]
        ELSE [none |-> TRUE, value |-> <<>>]

\* a Python dict is falsy when it is empty
Truthy(parsed) == ~parsed.none /\ DOMAIN parsed.value # {}

\* dict.get(key, default)
Get(dict, key, default) == IF key \in DOMAIN dict THEN dict[key] ELSE default

----------------------------------------------------------------------------
(* Orchestrator._fallback_routing and Orchestrator._route_message *)

AnyKeyword(message_lower, keywords) == \E word \in keywords : Contains(message_lower, word)

Decision(agent, reasoning) ==
    [primary_agent |-> agent, secondary_agents |-> PyList(<<>>), reasoning |-> reasoning]

\* _fallback_routing with the message matched as typed, not lower-cased
fallback_routing_case_sensitive(message) ==
    IF AnyKeyword(message, productivity_keywords)
    THEN Decision("productivity", "Keyword match for productivity")
    ELSE IF AnyKeyword(message, creative_keywords)
    THEN Decision("creative", "Keyword match for creative")
    ELSE IF AnyKeyword(message, researcher_keywords)
    THEN Decision("researcher", "Keyword match for researcher")
    ELSE IF AnyKeyword(message, knowledge_keywords)
    THEN Decision("knowledge", "Keyword match for knowledge")
    ELSE IF AnyKeyword(message, memory_keywords)
    THEN Decision("memory", "Keyword match for memory")
    ELSE Decision("chat", "Default to chat agent")

_fallback_routing(message) ==
    LET message_lower == Lower(message)
    IN  IF AnyKeyword(message_lower, productivity_keywords)
        THEN Decision("productivity", "Keyword match for productivity")
        ELSE IF AnyKeyword(message_lower, creative_keywords)
        THEN Decision("creative", "Keyword match for creative")
        ELSE IF AnyKeyword(message_lower, researcher_keywords)
        THEN Decision("researcher", "Keyword match for researcher")
        ELSE IF AnyKeyword(message_lower, knowledge_keywords)
        THEN Decision("knowledge", "Keyword match for knowledge")
        ELSE IF AnyKeyword(message_lower, memory_keywords)
        THEN Decision("memory", "Keyword match for memory")
        ELSE Decision("chat", "Default to chat agent")

\* _route_message without its try/except around the generator call
route_message_unguarded(message, llm) ==
    LET decision == parse_json_response(llm.text)
    IN  IF llm.raises
        THEN [raised |-> TRUE, value |-> <<>>]
        ELSE IF Truthy(decision) /\ "primary_agent" \in DOMAIN decision.value
        THEN [raised |-> FALSE, value |-> decision.value]
        ELSE [raised |-> FALSE, value |-> _fallback_routing(message)]

\* llm is what get_completion_text does for the routing prompt:
\* [raises |-> TRUE] or [raises |-> FALSE, text |-> tokens]
_route_message(message, llm) ==
    LET decision == parse_json_response(llm.text)
    IN  \* try: ... except: pass -- a raising call falls through to the fallback
        IF ~llm.raises /\ Truthy(decision) /\ "primary_agent" \in DOMAIN decision.value
        THEN [raised |-> FALSE, value |-> decision.value]
        ELSE [raised |-> FALSE, value |-> _fallback_routing(message)]

----------------------------------------------------------------------------
(* The state after construction: DatabaseManager on an empty database with *)
(* the users registered, Orchestrator.__init__ with its six agents.        *)

Users == {1, 2}

NoGame == "None"

\* KnowledgeAgent.__init__: no index, no chunks, no document name
NoDocument == [index |-> FALSE, chunks |-> FALSE, document_name |-> "None"]

Idle == [pc |-> "idle"]

SysInit ==
    /\ conversations = <<>>
    /\ memory = [u \in Users |-> <<>>]
    /\ tasks = <<>>
    /\ active_game = NoGame
    /\ document = NoDocument
    /\ streams = [u \in Users |-> Idle]
    /\ last = [op |-> "none"]
    /\ requests = 0

\* storage and the agents' attributes, as one value
World ==
    [conversations |-> conversations, memory |-> memory, tasks |-> tasks,
     active_game |-> active_game, document |-> document]

----------------------------------------------------------------------------
(* Storage reads.  A turn gets its timestamp from the database clock when  *)
(* it is inserted; the model takes turns to be inserted at distinct        *)
(* timestamps, so that ORDER BY timestamp is the insertion order.          *)

\* sep.join(parts)
RECURSIVE Join(_, _)
Join(parts, sep) ==
    IF parts = <<>> THEN <<>>
    ELSE IF Len(parts) = 1 THEN Head(parts)
    ELSE Head(parts) \o sep \o Join(Tail(parts), sep)

OfUser(w, user_id) == LET mine(c) == c.user_id = user_id IN SelectSeq(w.conversations, mine)

\* DatabaseManager.get_conversation_history: the `limit` newest turns of the
\* user (ORDER BY timestamp DESC LIMIT ?), returned reversed, oldest first
get_conversation_history(w, user_id, limit) ==
    LET newest_first == Prefix(Reverse(OfUser(w, user_id)), limit)
    IN  Reverse(newest_first)

\* DatabaseManager.get_all_memories: ORDER BY last_updated DESC
get_all_memories(w, user_id) == w.memory[user_id]

----------------------------------------------------------------------------
(* BaseAgent._trim_context and BaseAgent.get_user_context *)

MAX_CONVERSATIONS == 6

MAX_MESSAGE_LENGTH == 1500

HISTORY_LIMIT == 20

MEMORY_LIMIT == 10

RESPONSE_PREVIEW == 200

Ellipsis == <<".", ".", ".">>

Truncated(text) ==
    IF Len(text) > MAX_MESSAGE_LENGTH
    THEN Prefix(text, MAX_MESSAGE_LENGTH) \o Ellipsis
    ELSE text

_trim_context(convs) ==
    LET kept == IF Len(convs) > MAX_CONVERSATIONS THEN LastN(convs, MAX_CONVERSATIONS) ELSE convs
    IN  [i \in 1..Len(kept) |->
            [kept[i] EXCEPT !.message = Truncated(kept[i].message),
                            !.response = Truncated(kept[i].response)]]

MemoryLines(memories) ==
    IF memories = <<>> THEN <<>>
    ELSE << <<"User Preferences and Information:">> >> \o
         [i \in 1..Min(MEMORY_LIMIT, Len(memories)) |->
            <<"- ">> \o memories[i].key \o <<": ">> \o memories[i].value]

\* for i, conv in enumerate(reversed(conversations)): the User line, then the
\* Assistant line, whole when i == len(conversations) - 1 and cut otherwise
ConversationLines(convs) ==
    IF convs = <<>> THEN <<>>
    ELSE LET shown == Reverse(convs)
             n == Len(convs)
             line(k) ==
                LET i == (k - 1) \div 2
                    conv == shown[i + 1]
                IN  IF k % 2 = 1 THEN <<"User: ">> \o conv.message
                    ELSE IF i = n - 1 THEN <<"Assistant: ">> \o conv.response
                    ELSE <<"Assistant: ">> \o Prefix(conv.response, RESPONSE_PREVIEW) \o Ellipsis
         IN  << <<"\nRecent Conversation History:">> >> \o [k \in 1..(2 * n) |-> line(k)]

\* the list context_parts of get_user_context
context_parts(w, user_id) ==
    LET convs == _trim_context(get_conversation_history(w, user_id, HISTORY_LIMIT))
        memories == get_all_memories(w, user_id)
    IN  MemoryLines(memories) \o ConversationLines(convs)

\* get_user_context without the placeholder: the joined parts, empty or not
get_user_context_unguarded(w, user_id) == Join(context_parts(w, user_id), <<"\n">>)

get_user_context(w, user_id) ==
    LET parts == context_parts(w, user_id)
    IN  IF parts # <<>> THEN Join(parts, <<"\n">>) ELSE <<"No previous context available.">>

----------------------------------------------------------------------------
(* The router on its own: every message of a bounded set is routed by the  *)
(* keyword fallback, and every pair of a message and a generator reply by  *)
(* _route_message.                                                         *)

\* a message is at most MaxParts fragments, written one after the other
MaxParts == 2

\* a reply of the generator to the routing prompt is at most MaxReplyLen tokens
MaxReplyLen == 3

Fragments ==
    { <<"t","a","s","k">>, <<"r","e","m","i","n","d">>,
      <<"p","o","e","m">>, <<"p","l","a","y">>,
      <<"n","e","w","s">>, <<"n","o","w">>, <<"l","a","t","e","s","t">>,
      <<"p","d","f">>, <<"d","o","c","u","m","e","n","t">>,
      <<"r","e","m","e","m","b","e","r">>,
      <<"w","h","a","t"," ","d","o"," ","y","o","u"," ","k","n","o","w">>,
      <<"h","e","l","l","o">>, <<" ">>, <<"T","A","S","K">>, <<"P","o","e","m">>,
      <<"m","y"," ","P","r","e","f","e","r","e","n","c","e","s">> }

RECURSIVE Phrases(_)
Phrases(n) ==
    IF n = 0 THEN {<<>>}
    ELSE LET shorter == Phrases(n - 1)
         IN  shorter \cup {p \o f : p \in shorter, f \in Fragments}

FallbackMessages == Phrases(MaxParts)

RouteMessages ==
    { <<"h","e","l","l","o">>, <<"T","A","S","K">>, <<"n","e","w","s">>,
      <<"r","e","m","e","m","b","e","r">>, <<"p","d","f">>, <<"P","o","e","m">> }

ReplyTokens == {"{", "}", "sure", "pa:creative", "pa:poet", "sa:[memory]", "re:because"}

RECURSIVE Replies(_)
Replies(n) ==
    IF n = 0 THEN {<<>>}
    ELSE LET shorter == Replies(n - 1)
         IN  shorter \cup {Append(r, t) : r \in shorter, t \in ReplyTokens}

RoutingReplies ==
    {[raises |-> TRUE, text |-> <<>>]} \cup {[raises |-> FALSE, text |-> r] : r \in Replies(MaxReplyLen)}

NoProbe == [stage |-> "none"]

RouteInputs ==
    {[stage |-> "input", op |-> "_fallback_routing", message |-> m] : m \in FallbackMessages}
        \cup {[stage |-> "input", op |-> "_route_message", message |-> m, llm |-> l] :
                    m \in RouteMessages, l \in RoutingReplies}

RouteInit == SysInit /\ probe \in RouteInputs

FallbackStep ==
    /\ probe.stage = "input" /\ probe.op = "_fallback_routing"
    /\ probe' = [stage |-> "output", op |-> probe.op, message |-> probe.message,
                 result |-> _fallback_routing(probe.message), llm_calls |-> 0]
    /\ UNCHANGED sysVars

RouteStep ==
    /\ probe.stage = "input" /\ probe.op = "_route_message"
    /\ probe' = [stage |-> "output", op |-> probe.op, message |-> probe.message,
                 llm |-> probe.llm, result |-> _route_message(probe.message, probe.llm),
                 llm_calls |-> 1]
    /\ UNCHANGED sysVars

RouteNext == FallbackStep \/ RouteStep

SpecRoute == RouteInit /\ [][RouteNext]_vars

----------------------------------------------------------------------------
(* The context assembler on its own: storage holds a bounded history and   *)
(* get_user_context is applied to it.                                      *)

\* a stored history has at most MaxHistory turns of the user asking
MaxHistory == 7

Marks == <<"1", "2", "3", "4", "5", "6", "7", "8", "9">>

\* a text of n characters that begins with `mark` and, when longer, ends with "$"
Text(n, mark) == [k \in 1..n |-> IF k = 1 THEN mark ELSE IF k = n THEN "$" ELSE "a"]

\* at most MaxLong turns of a stored history are long
MaxLong == 2

\* lengths of a turn's message and response: a short turn, and two long
\* ones that pass the two cuts (1500 and 200 characters)
ShortShape == [m |-> 1, r |-> 1]

LongShapes == {[m |-> 1501, r |-> 201], [m |-> 2, r |-> 1501]}

NoMetadata == [none |-> TRUE]

StoredTurn(user_id, i, shape) ==
    [user_id |-> user_id, agent_type |-> "chat",
     message |-> Text(shape.m, Marks[i]), response |-> Text(shape.r, Marks[i]),
     metadata |-> NoMetadata]

History(n, long) ==
    [i \in 1..n |-> StoredTurn(1, i, IF i \in DOMAIN long THEN long[i] ELSE ShortShape)]

Histories ==
    UNION {UNION {{History(n, long) : long \in [pos -> LongShapes]} :
                        pos \in {s \in SUBSET (1..n) : Cardinality(s) <= MaxLong}} :
                n \in 0..MaxHistory}

Fact(key, value) == [key |-> <<key>>, value |-> <<value>>]

StoredMemories ==
    { <<>>,
      <<Fact("__creative_game_state", "{active_game: riddle}"), Fact("favorite_color", "blue")>> }

\* the history of user 1, then one turn of user 2
CtxInit ==
    /\ \E history \in Histories :
            conversations = Append(history, StoredTurn(2, 9, ShortShape))
    /\ \E mem \in StoredMemories : memory = [u \in Users |-> IF u = 1 THEN mem ELSE <<>>]
    /\ tasks = <<>>
    /\ active_game = NoGame
    /\ document = NoDocument
    /\ streams = [u \in Users |-> Idle]
    /\ last = [op |-> "none"]
    /\ requests = 0
    /\ probe \in {[stage |-> "input", op |-> "get_user_context", user_id |-> u] : u \in Users}

GetUserContextStep ==
    /\ probe.stage = "input" /\ probe.op = "get_user_context"
    /\ probe' = [stage |-> "output", op |-> probe.op, user_id |-> probe.user_id,
                 parts |-> context_parts(World, probe.user_id),
                 result |-> get_user_context(World, probe.user_id)]
    /\ UNCHANGED sysVars

CtxNext == GetUserContextStep

SpecCtx == CtxInit /\ [][CtxNext]_vars

----------------------------------------------------------------------------
(* The context assembler's claims *)

ContextBuilt == probe.stage = "output" /\ probe.op = "get_user_context"

UserLines(parts) == LET is_user(line) == Head(line) = "User: " IN SelectSeq(parts, is_user)

AssistantLines(parts) ==
    LET is_assistant(line) == Head(line) = "Assistant: " IN SelectSeq(parts, is_assistant)

\* C5: the context built by get_user_context cuts every rendered message and
\* response to at most 1,500 characters, except the response of the most
\* recent turn, which appears in the context unabridged whatever its length.
C5_LatestResponseUnabridged ==
    ContextBuilt =>
        LET history == OfUser(World, probe.user_id)
            latest == history[Len(history)]
            users == UserLines(probe.parts)
            assistants == AssistantLines(probe.parts)
            whole == <<"Assistant: ">> \o latest.response
        IN  history # <<>> =>
                /\ \A k \in 1..Len(users) : Len(Tail(users[k])) <= MAX_MESSAGE_LENGTH
                /\ \E k \in 1..Len(assistants) : assistants[k] = whole
                /\ \A k \in 1..Len(assistants) :
                        Len(Tail(assistants[k])) <= MAX_MESSAGE_LENGTH \/ assistants[k] = whole

\* C6: get_user_context renders the retained turns oldest first: the User
\* lines are the messages of the user's newest turns in the order they were
\* stored, so the most recent turn is the last pair of the context.
C6_OldestFirst ==
    ContextBuilt =>
        LET history == OfUser(World, probe.user_id)
            retained == LastN(history, MAX_CONVERSATIONS)
            users == UserLines(probe.parts)
            n == Len(probe.parts)
        IN  history # <<>> =>
                /\ Len(users) = Len(retained)
                /\ \A k \in 1..Len(users) :
                        Tail(users[k]) = Truncated(retained[k].message)
                /\ probe.parts[n - 1] = <<"User: ">> \o Truncated(history[Len(history)].message)
                /\ Head(probe.parts[n]) = "Assistant: "

----------------------------------------------------------------------------
(* The router's claims *)

Priority == <<"productivity", "creative", "researcher", "knowledge", "memory">>

KeywordsOf(tag) ==
    CASE tag = "productivity" -> productivity_keywords
      [] tag = "creative" -> creative_keywords
      [] tag = "researcher" -> researcher_keywords
      [] tag = "knowledge" -> knowledge_keywords
      [] tag = "memory" -> memory_keywords

Hits(message, tag) ==
    LET message_lower == Lower(message)
    IN  \E k \in KeywordsOf(tag) : Contains(message_lower, k)

StorageUntouched ==
    conversations = <<>> /\ tasks = <<>> /\ \A u \in Users : memory[u] = <<>>

\* C7: the keyword fallback router is total and deterministic: with no
\* generator call and no storage write it returns one of the six tags, the
\* first of productivity, creative, researcher, knowledge, memory whose keyword
\* set has a keyword occurring in the lower-cased message, and chat when none
\* has, so the tag is a function of the message alone.
C7_FallbackTotalAndDeterministic ==
    (probe.stage = "output" /\ probe.op = "_fallback_routing") =>
        LET tag == probe.result.primary_agent
        IN  /\ tag \in KnownAgents
            /\ probe.llm_calls = 0
            /\ StorageUntouched
            /\ \A i \in 1..Len(Priority) :
                    (tag = Priority[i]) <=>
                        (/\ Hits(probe.message, Priority[i])
                         /\ \A j \in 1..(i - 1) : ~Hits(probe.message, Priority[j]))
            /\ (tag = "chat") <=> (\A i \in 1..Len(Priority) : ~Hits(probe.message, Priority[i]))

\* a message typed with capitals that has keywords of two sets is routed to the earlier one
C7_Witness ==
    /\ probe.stage = "output" /\ probe.op = "_fallback_routing"
    /\ probe.result.primary_agent = "productivity"
    /\ probe.message # Lower(probe.message)
    /\ Hits(probe.message, "creative")

RoutingFailed(llm) ==
    \/ llm.raises
    \/ parse_json_response(llm.text).none
    \/ "primary_agent" \notin DOMAIN parse_json_response(llm.text).value

\* C8: when the routing generator call raises, returns text with no parseable
\* JSON object, or returns JSON without primary_agent, _route_message does not
\* raise and returns exactly the decision _fallback_routing gives for the message.
C8_RouteFallsBackOnFailure ==
    (probe.stage = "output" /\ probe.op = "_route_message" /\ RoutingFailed(probe.llm)) =>
        /\ ~probe.result.raised
        /\ probe.result.value = _fallback_routing(probe.message)

\* the three failures, each on a message the fallback does not send to chat
C8_Witness ==
    /\ probe.stage = "output" /\ probe.op = "_route_message"
    /\ probe.result.value.primary_agent = "researcher"
    /\ \/ probe.llm.raises
       \/ probe.llm.text = <<"{", "re:because", "}">>
       \/ probe.llm.text = <<"{", "pa:creative", "sure">>

----------------------------------------------------------------------------
(* Storage writes.  Within one request the handlers run one after another   *)
(* on the storage the earlier ones left, so each is an operator from a      *)
(* world (storage and the agents' attributes) to the world after it.        *)

\* DatabaseManager.add_conversation
add_conversation(w, user_id, agent_type, message, response, metadata) ==
    [w EXCEPT !.conversations =
        Append(@, [user_id |-> user_id, agent_type |-> agent_type, message |-> message,
                   response |-> response, metadata |-> metadata])]

\* set_memory as a plain INSERT, without ON CONFLICT(user_id, key) DO UPDATE
set_memory_insert_only(w, user_id, key, value) ==
    [w EXCEPT !.memory[user_id] = <<[key |-> key, value |-> value]>> \o @]

\* DatabaseManager.set_memory: INSERT ... ON CONFLICT(user_id, key) DO UPDATE,
\* last_updated refreshed, so the fact becomes the user's newest
set_memory(w, user_id, key, value) ==
    LET other(m) == m.key # key
    IN  [w EXCEPT !.memory[user_id] = <<[key |-> key, value |-> value]>> \o SelectSeq(@, other)]

\* DatabaseManager.get_memory
get_memory(w, user_id, key) ==
    LET same(m) == m.key = key
        found == SelectSeq(w.memory[user_id], same)
    IN  IF found = <<>> THEN [none |-> TRUE, value |-> <<>>]
        ELSE [none |-> FALSE, value |-> Head(found).value]

GameStateKey == <<"__creative_game_state">>

GameToken(game) == CHOOSE tok \in DOMAIN GameMember : GameMember[tok] = game

\* json.dumps({'active_game': game})
json_dumps(game) == <<"{", GameToken(game), "}">>

\* json.loads: the whole text must be one JSON object
json_loads(text) ==
    IF Len(text) >= 2 /\ Head(text) = "{" /\ text[Len(text)] = "}"
       /\ \A i \in 2..(Len(text) - 1) : IsMember(text[i])
    THEN [none |-> FALSE, value |-> JsonObject(SubSeq(text, 2, Len(text) - 1))]
    ELSE [none |-> TRUE, value |-> <<>>]

\* DatabaseManager.set_game_state
set_game_state(w, user_id, game) == set_memory(w, user_id, GameStateKey, json_dumps(game))

\* DatabaseManager.get_game_state: None when nothing is stored, when the stored
\* value is empty and when json.loads raises JSONDecodeError
get_game_state(w, user_id) ==
    LET mem == get_memory(w, user_id, GameStateKey)
    IN  IF ~mem.none /\ mem.value # <<>> THEN json_loads(mem.value)
        ELSE [none |-> TRUE, value |-> <<>>]

\* DatabaseManager.create_task; status defaults to 'pending'
create_task(w, user_id, title, description, priority, due_date) ==
    [w EXCEPT !.tasks =
        Append(@, [user_id |-> user_id, title |-> title, description |-> description,
                   priority |-> priority, status |-> "pending", due_date |-> due_date])]

\* DatabaseManager.get_tasks(user_id, status): ORDER BY created_at DESC
get_tasks(w, user_id, status) ==
    LET wanted(t) == t.user_id = user_id /\ t.status = status
    IN  Reverse(SelectSeq(w.tasks, wanted))

----------------------------------------------------------------------------
(* The agents' synchronous process.  env holds what the collaborators do    *)
(* in this call: env.llm = [raises, text] is get_completion_text, and       *)
(* env.search is the web search's result.  The result of a call is the      *)
(* world it leaves, whether it raised, the response it returned and the     *)
(* number of generator calls it made.                                       *)

Raise(w, calls) == [w |-> w, raised |-> TRUE, response |-> <<>>, llm_calls |-> calls]

Return(w, response, calls) ==
    [w |-> w, raised |-> FALSE, response |-> response, llm_calls |-> calls]

\* ChatAgent.process
ChatAgent_process(w, user_id, message, env) ==
    IF env.llm.raises THEN Raise(w, 1)
    ELSE Return(add_conversation(w, user_id, "chat", message, env.llm.text, NoMetadata),
                env.llm.text, 1)

task_creation_keywords ==
    { <<"c","r","e","a","t","e"," ","t","a","s","k">>,
      <<"a","d","d"," ","t","a","s","k">>,
      <<"n","e","w"," ","t","a","s","k">>,
      <<"r","e","m","i","n","d"," ","m","e">>,
      <<"t","o","d","o">>,
      <<"n","e","e","d"," ","t","o">> }

task_query_keywords ==
    { <<"m","y"," ","t","a","s","k","s">>,
      <<"s","h","o","w"," ","t","a","s","k","s">>,
      <<"l","i","s","t"," ","t","a","s","k","s">>,
      <<"w","h","a","t"," ","d","o"," ","i"," ","n","e","e","d">>,
      <<"w","h","a","t"," ","s","h","o","u","l","d"," ","i">> }

poem_keywords ==
    { <<"p","o","e","m">>,
      <<"p","o","e","t","r","y">>,
      <<"v","e","r","s","e">> }

story_keywords ==
    { <<"s","t","o","r","y">>,
      <<"t","a","l","e">>,
      <<"n","a","r","r","a","t","i","v","e">> }

summary_keywords ==
    { <<"s","u","m","m","a","r","y">>,
      <<"s","u","m","m","a","r","i","z","e">>,
      <<"t","l","d","r">> }

report_keywords ==
    { <<"r","e","p","o","r","t">>,
      <<"a","n","a","l","y","s","i","s">>,
      <<"r","e","v","i","e","w">> }

brainstorming_keywords ==
    { <<"b","r","a","i","n","s","t","o","r","m">>,
      <<"i","d","e","a","s">>,
      <<"s","u","g","g","e","s","t">> }

word_game_keywords ==
    { <<"g","a","m","e">>,
      <<"p","l","a","y">> }

image_keywords ==
    { <<"i","m","a","g","e">>,
      <<"p","i","c","t","u","r","e">>,
      <<"d","r","a","w">>,
      <<"i","l","l","u","s","t","r","a","t","e">>,
      <<"v","i","s","u","a","l","i","z","e">>,
      <<"i","m","a","g","i","n","e">> }

_is_task_creation(message) == AnyKeyword(Lower(message), task_creation_keywords)

_is_task_query(message) == AnyKeyword(Lower(message), task_query_keywords)

\* str.upper on a priority
Upper(text) ==
    LET up(c) == CASE c = "high" -> "HIGH" [] c = "medium" -> "MEDIUM" [] c = "low" -> "LOW"
                   [] OTHER -> IF \E k \in 1..26 : LowerCase[k] = c
                               THEN UpperCase[CHOOSE k \in 1..26 : LowerCase[k] = c]
                               ELSE c
    IN  [i \in 1..Len(text) |-> up(text[i])]

\* a text is truthy when it is neither None nor empty
TruthyText(text) == text # PyNone /\ text # <<>>

\* ProductivityAgent._handle_task_creation
_handle_task_creation(w, user_id, message, env) ==
    LET task_data == parse_json_response(env.llm.text)
        d == task_data.value
        title == Get(d, "title", <<"New Task">>)
        priority == Get(d, "priority", <<"medium">>)
        due_date == Get(d, "due_date", PyNone)
        w1 == create_task(w, user_id, title, Get(d, "description", PyNone), priority, due_date)
        response_text ==
            <<"Task created: **">> \o title \o <<"**\n">>
            \o <<"Priority: ">> \o Upper(priority) \o <<"\n">>
            \o (IF TruthyText(due_date) THEN <<"Due: ">> \o due_date \o <<"\n">> ELSE <<>>)
            \o <<"\nI've added this to your task list!">>
        simple_title == Prefix(message, 100)
        w2 == create_task(w, user_id, simple_title, PyNone, <<"medium">>, PyNone)
        simple_text == <<"Task created: **">> \o simple_title \o <<"**">>
    IN  IF env.llm.raises THEN Raise(w, 1)
        ELSE IF Truthy(task_data)
        THEN IF title = PyNone THEN Raise(w, 1)          \* tasks.title is NOT NULL
             ELSE IF priority = PyNone THEN Raise(w1, 1) \* None has no upper()
             ELSE Return(add_conversation(w1, user_id, "productivity", message,
                                          response_text, NoMetadata),
                         response_text, 1)
        ELSE Return(add_conversation(w2, user_id, "productivity", message,
                                     simple_text, NoMetadata),
                    simple_text, 1)

Numerals ==
    <<"1", "2", "3", "4", "5", "6", "7", "8", "9", "10", "11", "12", "13", "14", "15", "16">>

\* priority_order.get(t.priority, 1)
PriorityRank(t) ==
    CASE t.priority = <<"high">> -> 0 [] t.priority = <<"low">> -> 2 [] OTHER -> 1

\* priority_emoji.get(task.priority, ...), each emoji written as its name
PriorityEmoji(t) ==
    CASE t.priority = <<"high">> -> "red circle" [] t.priority = <<"medium">> -> "yellow circle"
      [] t.priority = <<"low">> -> "green circle" [] OTHER -> "white circle"

\* the tasks as get_tasks returns them, without the sort
sorted_by_creation(ts) == ts

\* sorted(tasks, key=...): a stable sort on the rank
SortedByPriority(ts) ==
    LET rank0(t) == PriorityRank(t) = 0
        rank1(t) == PriorityRank(t) = 1
        rank2(t) == PriorityRank(t) = 2
    IN  SelectSeq(ts, rank0) \o SelectSeq(ts, rank1) \o SelectSeq(ts, rank2)

TaskLine(i, t) ==
    <<Numerals[i], ". ", PriorityEmoji(t), " **">> \o t.title \o <<"**">>
    \o (IF TruthyText(t.due_date) THEN <<" (Due: ">> \o t.due_date \o <<")">> ELSE <<>>)
    \o <<"\n">>

\* the pending tasks as _handle_task_query presents them
TaskListing(pending) ==
    IF pending = <<>> THEN <<"You don't have any pending tasks. Great job!">>
    ELSE <<"You have **", Numerals[Len(pending)], "** pending tasks:\n\n">>
         \o Concat([i \in 1..Min(Len(pending), 10) |->
                        TaskLine(i, SortedByPriority(pending)[i])])

\* _handle_task_query without its add_conversation
handle_task_query_unsaved(w, user_id, message, env) ==
    Return(w, TaskListing(get_tasks(w, user_id, "pending")), 0)

\* ProductivityAgent._handle_task_query
_handle_task_query(w, user_id, message, env) ==
    Return(add_conversation(w, user_id, "productivity", message,
                            TaskListing(get_tasks(w, user_id, "pending")), NoMetadata),
           TaskListing(get_tasks(w, user_id, "pending")), 0)

\* ProductivityAgent._handle_general_productivity
_handle_general_productivity(w, user_id, message, env) ==
    IF env.llm.raises THEN Raise(w, 1)
    ELSE Return(add_conversation(w, user_id, "productivity", message, env.llm.text,
                                 NoMetadata),
                env.llm.text, 1)

\* ProductivityAgent.process
ProductivityAgent_process(w, user_id, message, env) ==
    IF _is_task_creation(message) THEN _handle_task_creation(w, user_id, message, env)
    ELSE IF _is_task_query(message) THEN _handle_task_query(w, user_id, message, env)
    ELSE _handle_general_productivity(w, user_id, message, env)

\* CreativeAgent._identify_creative_task
_identify_creative_task(message) ==
    LET message_lower == Lower(message)
    IN  IF AnyKeyword(message_lower, poem_keywords) THEN "poem"
        ELSE IF AnyKeyword(message_lower, story_keywords) THEN "story"
        ELSE IF AnyKeyword(message_lower, summary_keywords) THEN "summary"
        ELSE IF AnyKeyword(message_lower, report_keywords) THEN "report"
        ELSE IF AnyKeyword(message_lower, brainstorming_keywords) THEN "brainstorming"
        ELSE IF Contains(message_lower, <<"w","o","r","d"," ","c","h","a","i","n">>)
        THEN "word_chain"
        ELSE IF Contains(message_lower, <<"r","i","d","d","l","e">>) THEN "riddle"
        ELSE IF Contains(message_lower, <<"h","a","n","g","m","a","n">>) THEN "hangman"
        ELSE IF AnyKeyword(message_lower, word_game_keywords) THEN "word_game"
        ELSE "general_creative"

GameTasks == {"word_chain", "riddle", "hangman", "word_game"}

OtherCreativeTasks ==
    {"poem", "story", "summary", "report", "brainstorming", "general_creative"}

\* the game the agent holds on entry: game_state.get('active_game') if
\* game_state else None
LoadedGame(w, user_id) ==
    LET game_state == get_game_state(w, user_id)
    IN  IF Truthy(game_state) THEN Get(game_state.value, "active_game", NoGame) ELSE NoGame

\* the game held without the elif branch that clears it for the other task types
game_for_never_cleared(task_type, loaded) ==
    IF task_type \in GameTasks THEN task_type ELSE loaded

\* the game the agent holds once the task type is known
GameFor(task_type, loaded) ==
    IF task_type \in GameTasks THEN task_type
    ELSE IF task_type \in OtherCreativeTasks THEN NoGame
    ELSE loaded

\* CreativeAgent.should_generate_image
should_generate_image(task_type, message) ==
    \/ task_type \in {"story", "poem", "general_creative"}
    \/ AnyKeyword(Lower(message), image_keywords)

\* CreativeAgent._extract_image_prompt, as whether it returns a prompt: the
\* request names an image, or the response has a line of more than 20
\* characters (an atom of a generated text is one of its lines), or the
\* message is longer than 10 characters
HasImagePrompt(response, message) ==
    \/ AnyKeyword(Lower(message), image_keywords)
    \/ \E i \in 1..Len(response) : Len(response[i]) > 20
    \/ Len(message) > 10

\* CreativeAgent.generate_image: the markdown embed of the image, or of the
\* failure notice; never empty
ImageEmbed == <<"\n\n![Generated Image]">>

CreativeMetadata(task_type, game) == [task_type |-> task_type, active_game |-> game]

\* CreativeAgent.process once the task type is known and self.active_game is
\* set (w1 holds it)
CreativeRespond(w1, user_id, message, env, task_type) ==
    LET response ==
            IF should_generate_image(task_type, message)
               /\ HasImagePrompt(env.llm.text, message)
            THEN env.llm.text \o ImageEmbed
            ELSE env.llm.text
    IN  IF env.llm.raises THEN Raise(w1, 1)
        ELSE Return(set_game_state(add_conversation(w1, user_id, "creative", message, response,
                                                    CreativeMetadata(task_type, w1.active_game)),
                                   user_id, w1.active_game),
                    response, 1)

\* self.active_game after the task type is known
WithGame(w, user_id, task_type) ==
    [w EXCEPT !.active_game = GameFor(task_type, LoadedGame(w, user_id))]

CreativeWith(w, user_id, message, env, task_type) ==
    CreativeRespond(WithGame(w, user_id, task_type), user_id, message, env, task_type)

\* CreativeAgent.process
CreativeAgent_process(w, user_id, message, env) ==
    CreativeWith(w, user_id, message, env, _identify_creative_task(message))

\* what ResearcherAgent._search_web returns: None (no key, or the request
\* failed), an empty JSON object, results without organic entries, results
SearchResults == {"None", "{}", "no organic", "organic"}

\* bool(search_results)
search_performed(search) == search \notin {"None", "{}"}

\* ResearcherAgent._format_search_results: the organic entries, numbered, or
\* "No results found." when there is none
_format_search_results(search) ==
    IF search = "organic"
    THEN <<"1. **Title**\n   Snippet\n   Source: https://example.org">>
    ELSE <<"No results found.">>

NoSearchResults ==
    <<"No search results available. Please provide a general answer based on your knowledge.">>

\* the additional_context the researcher hands to create_response and to
\* create_response_stream
research_context(search) ==
    IF search_performed(search)
    THEN <<"Web Search Results:\n">> \o _format_search_results(search)
    ELSE NoSearchResults

\* ResearcherAgent.process
ResearcherAgent_process(w, user_id, message, env) ==
    IF env.llm.raises THEN Raise(w, 1)
    ELSE Return(add_conversation(w, user_id, "researcher", message, env.llm.text,
                                 [search_performed |-> search_performed(env.search)]),
                env.llm.text, 1)

NoDocumentsResponse ==
    <<"No documents have been uploaded yet. Please upload a PDF to get started.">>

\* not self.index or not self.chunks
NothingIngested(w) == ~w.document.index \/ ~w.document.chunks

\* KnowledgeAgent.process without the no-documents branch: the generator is
\* always asked
knowledge_process_always_asks(w, user_id, message, env) ==
    IF env.llm.raises THEN Raise(w, 1)
    ELSE Return(add_conversation(w, user_id, "knowledge", message, env.llm.text,
                                 [document |-> w.document.document_name]),
                env.llm.text, 1)

\* KnowledgeAgent.process
KnowledgeAgent_process(w, user_id, message, env) ==
    LET metadata == [document |-> w.document.document_name]
    IN  IF NothingIngested(w)
        THEN Return(add_conversation(w, user_id, "knowledge", message,
                                     NoDocumentsResponse, metadata),
                    NoDocumentsResponse, 0)
        ELSE IF env.llm.raises THEN Raise(w, 1)
        ELSE Return(add_conversation(w, user_id, "knowledge", message, env.llm.text,
                                     metadata),
                    env.llm.text, 1)

\* the listing of MemoryAgent.process
MemoryListing(memories) ==
    LET shown == Prefix(memories, 20)
        line(m) == <<"- ">> \o m.key \o <<": ">> \o m.value
    IN  <<"Here's what I remember about you:\n\n">>
        \o Join([i \in 1..Len(shown) |-> line(shown[i])], <<"\n">>)

NoMemoriesResponse ==
    <<"I don't have any stored memories about you yet. As we interact more, I'll learn your preferences!">>

\* MemoryAgent.process
MemoryAgent_process(w, user_id, message, env) ==
    LET memories == get_all_memories(w, user_id)
        response == IF memories # <<>> THEN MemoryListing(memories) ELSE NoMemoriesResponse
    IN  Return(add_conversation(w, user_id, "memory", message, response, NoMetadata),
               response, 0)

\* self.agents[agent].process(user_id, message)
process(agent, w, user_id, message, env) ==
    CASE agent = "chat" -> ChatAgent_process(w, user_id, message, env)
      [] agent = "productivity" -> ProductivityAgent_process(w, user_id, message, env)
      [] agent = "creative" -> CreativeAgent_process(w, user_id, message, env)
      [] agent = "researcher" -> ResearcherAgent_process(w, user_id, message, env)
      [] agent = "knowledge" -> KnowledgeAgent_process(w, user_id, message, env)
      [] agent = "memory" -> MemoryAgent_process(w, user_id, message, env)

----------------------------------------------------------------------------
(* MemoryAgent.extract_and_store_memories and Orchestrator._update_memories *)

\* the loop over memories_data: an element that is a dict with 'key' and
\* 'value' is upserted and appended to stored_memories.  A NULL key or value
\* is refused by storage (NOT NULL): the exception leaves the loop, the
\* upserts made so far stay, and the except clause returns [].
RECURSIVE store_memories(_, _, _, _)
store_memories(memories_data, w, user_id, stored_memories) ==
    IF memories_data = <<>> THEN [w |-> w, stored_memories |-> stored_memories]
    ELSE LET memory_data == Head(memories_data)
         IN  IF "key" \in DOMAIN memory_data /\ "value" \in DOMAIN memory_data
             THEN IF memory_data["key"] = PyNone \/ memory_data["value"] = PyNone
                  THEN [w |-> w, stored_memories |-> <<>>]
                  ELSE store_memories(Tail(memories_data),
                                      set_memory(w, user_id, memory_data["key"],
                                                 memory_data["value"]),
                                      user_id, Append(stored_memories, memory_data))
             ELSE store_memories(Tail(memories_data), w, user_id, stored_memories)

\* MemoryAgent.extract_and_store_memories: the storage it leaves and the
\* list it returns.  parse_json_response gives a dict or None, so
\* memories_data is always the one-element list made of that dict.  Every
\* exception (the generator call, a write refused by storage) is caught.
extract_and_store_memories(w, user_id, llm) ==
    IF llm.raises THEN [w |-> w, stored_memories |-> <<>>]
    ELSE IF ~Truthy(parse_json_response(llm.text)) THEN [w |-> w, stored_memories |-> <<>>]
    ELSE store_memories(<<parse_json_response(llm.text).value>>, w, user_id, <<>>)

\* Orchestrator._update_memories: try: extract_and_store_memories except: pass
_update_memories(w, user_id, message, response, llm) ==
    extract_and_store_memories(w, user_id, llm).w

----------------------------------------------------------------------------
(* Orchestrator.process_message.  inp holds what the collaborators do in    *)
(* this request: inp.route and inp.extract are get_completion_text for the  *)
(* routing and the extraction prompt, inp.down the agents whose generator   *)
(* call raises, inp.text the text the other agents' calls return,           *)
(* inp.search the web search's result.                                      *)

AgentEnv(agent, inp) ==
    [llm |-> [raises |-> agent \in inp.down, text |-> inp.text], search |-> inp.search]

\* what one call of an agent's process did, and the turns it added
CallRecord(role, agent, before, r) ==
    [role |-> role, agent |-> agent, raised |-> r.raised, response |-> r.response,
     llm_calls |-> r.llm_calls,
     memory_before |-> before.memory, memory_after |-> r.w.memory,
     added |-> SubSeq(r.w.conversations, Len(before.conversations) + 1,
                      Len(r.w.conversations))]

\* the secondary call without its try/except: a raising agent aborts the loop
secondary_result_unguarded(agent, st, r) ==
    [w |-> r.w,
     raised |-> st.raised \/ r.raised,
     secondary_responses |->
        IF r.raised THEN st.secondary_responses
        ELSE (agent :> r.response) @@ st.secondary_responses,
     calls |-> Append(st.calls, CallRecord("secondary", agent, st.w, r))]

\* try: secondary_responses[agent_name] = <r> except: pass
secondary_result(agent, st, r) ==
    [w |-> r.w,
     raised |-> st.raised,
     secondary_responses |->
        IF r.raised THEN st.secondary_responses
        ELSE (agent :> r.response) @@ st.secondary_responses,
     calls |-> Append(st.calls, CallRecord("secondary", agent, st.w, r))]

secondary_call(agent, st, user_id, message, inp) ==
    secondary_result(agent, st,
                     process(agent, st.w, user_id, message, AgentEnv(agent, inp)))

\* for agent_name in secondary_agents: if agent_name in self.agents and
\* agent_name != primary_agent: ...
RECURSIVE secondary_loop(_, _, _, _, _, _)
secondary_loop(names, st, primary_agent, user_id, message, inp) ==
    IF names = <<>> \/ st.raised THEN st
    ELSE secondary_loop(Tail(names),
                        IF Head(names) \in KnownAgents /\ Head(names) # primary_agent
                        THEN secondary_call(Head(names), st, user_id, message, inp)
                        ELSE st,
                        primary_agent, user_id, message, inp)

\* one invocation of the memory extractor: what it was given, and how many
\* items the caller had been handed by then
Extraction(message, response, handed) ==
    [message |-> message, response |-> response, handed |-> handed]

Raised(w, calls) == [w |-> w, raised |-> TRUE, calls |-> calls, extracted |-> <<>>]

\* process_message after the loop over the secondary agents (st): update the
\* memories, build the result
after_secondaries(st, p, primary_agent, user_id, message, routing_decision, inp) ==
    IF st.raised THEN Raised(st.w, st.calls)
    ELSE [w |-> _update_memories(st.w, user_id, message, p.response, inp.extract),
          raised |-> FALSE,
          calls |-> st.calls,
          extracted |-> <<Extraction(message, p.response, 0)>>,
          result |-> [response |-> p.response,
                      primary_agent |-> primary_agent,
                      secondary_responses |-> st.secondary_responses,
                      routing_reasoning |-> Get(routing_decision, "reasoning", "")]]

\* process_message after the primary agent's call (p, recorded as primary_call)
after_primary(p, primary_call, primary_agent, secondary_agents, user_id, message, routing_decision, inp) ==
    IF p.raised THEN Raised(p.w, <<primary_call>>)
    ELSE IF ~secondary_agents.is_list
    THEN Raised(p.w, <<primary_call>>)                \* TypeError: not iterable
    ELSE after_secondaries(
            secondary_loop(secondary_agents.items,
                           [w |-> p.w, raised |-> FALSE,
                            secondary_responses |-> <<>>, calls |-> <<primary_call>>],
                           primary_agent, user_id, message, inp),
            p, primary_agent, user_id, message, routing_decision, inp)

primary(w, p, primary_agent, secondary_agents, user_id, message, routing_decision, inp) ==
    after_primary(p, CallRecord("primary", primary_agent, w, p), primary_agent,
                  secondary_agents, user_id, message, routing_decision, inp)

\* process_message once the primary tag is hashable; an unknown one is
\* replaced by 'chat'
dispatch_to(w, primary_agent, user_id, message, routing_decision, inp) ==
    primary(w, process(primary_agent, w, user_id, message, AgentEnv(primary_agent, inp)),
            primary_agent, Get(routing_decision, "secondary_agents", PyList(<<>>)),
            user_id, message, routing_decision, inp)

\* process_message from the routing decision on
dispatch(w, user_id, message, routing_decision, inp) ==
    IF Get(routing_decision, "primary_agent", "chat") \in Unhashable
    THEN Raised(w, <<>>)                              \* TypeError: unhashable
    ELSE dispatch_to(w,
                     IF Get(routing_decision, "primary_agent", "chat") \in KnownAgents
                     THEN Get(routing_decision, "primary_agent", "chat") ELSE "chat",
                     user_id, message, routing_decision, inp)

\* Orchestrator.process_message
process_message(w, user_id, message, inp) ==
    dispatch(w, user_id, message, _route_message(message, inp.route).value, inp)

----------------------------------------------------------------------------
(* The agents' process_stream: a generator, advanced one pull at a time.    *)
(* gen is the generator's frame: where it stands (pc), its locals, and what *)
(* it has yielded and stored so far.  stream = [deltas, raises] is what the *)
(* generator's streaming call does: the deltas it delivers, and whether it  *)
(* raises after them.                                                       *)

\* LLMClient.stream_completion: only the non-empty deltas are yielded
stream_completion(stream) ==
    LET nonempty(delta) == delta # <<>>
    IN  SelectSeq(stream.deltas, nonempty)

\* the frame of agent.process_stream(user_id, message) before its first pull
NewStream(agent, user_id, message) ==
    [agent |-> agent, user_id |-> user_id, message |-> message, pc |-> "start",
     chunks |-> <<>>, raises |-> FALSE, full_response |-> <<>>,
     task_type |-> "None", search |-> "None", loaded |-> NoGame,
     yielded |-> <<>>, added |-> <<>>, llm_calls |-> 0,
     memory_before |-> <<>>, memory_after |-> <<>>]

Yield(w, gen, chunk) ==
    [w |-> w, kind |-> "yield", chunk |-> chunk,
     gen |-> [gen EXCEPT !.yielded = Append(@, chunk)]]

Stop(w, gen) ==
    [w |-> w, kind |-> "stop", chunk |-> <<>>,
     gen |-> [gen EXCEPT !.pc = "exhausted", !.memory_after = w.memory]]

\* the failing stream as it would be with add_conversation in a finally
\* clause: what was streamed so far is stored
throw_stores_partial(w, gen) ==
    [w |-> add_conversation(w, gen.user_id, gen.agent, gen.message, gen.full_response,
                            [none |-> TRUE]),
     kind |-> "raise", chunk |-> <<>>,
     gen |-> [gen EXCEPT !.pc = "failed",
                         !.added = Append(@, [user_id |-> gen.user_id, agent_type |-> gen.agent,
                                              message |-> gen.message,
                                              response |-> gen.full_response,
                                              metadata |-> [none |-> TRUE]])]]

\* the streaming call raises: the exception leaves the agent's generator
Throw(w, gen) == [w |-> w, kind |-> "raise", chunk |-> <<>>, gen |-> [gen EXCEPT !.pc = "failed"]]

\* a storage write of the generator, kept in its frame as well
Persist(w, gen, metadata) ==
    LET w1 == add_conversation(w, gen.user_id, gen.agent, gen.message,
                               gen.full_response, metadata)
    IN  [w |-> w1,
         gen |-> [gen EXCEPT !.added = Append(@, w1.conversations[Len(w1.conversations)])]]

\* the end of the stream as it would be if the game state were saved only
\* when it differs from the one loaded
finish_saves_on_change(w, gen) ==
    CASE gen.agent \in {"productivity", "memory"} -> Stop(w, gen)
      [] gen.agent = "chat" ->
            LET p == Persist(w, gen, NoMetadata) IN Stop(p.w, p.gen)
      [] gen.agent = "researcher" ->
            LET p == Persist(w, gen, [search_performed |-> search_performed(gen.search)])
            IN  Stop(p.w, p.gen)
      [] gen.agent = "knowledge" ->
            LET p == Persist(w, gen, [document |-> w.document.document_name])
            IN  Stop(p.w, p.gen)
      [] gen.agent = "creative" ->
            LET p == Persist(w, gen, CreativeMetadata(gen.task_type, w.active_game))
            IN  Stop(IF w.active_game = gen.loaded THEN p.w
                     ELSE set_game_state(p.w, gen.user_id, w.active_game),
                     p.gen)

\* what the agent stores once its fragments are exhausted; the agents that
\* inherit BaseAgent.process_stream store nothing
Finish(w, gen) ==
    CASE gen.agent \in {"productivity", "memory"} -> Stop(w, gen)
      [] gen.agent = "chat" ->
            LET p == Persist(w, gen, NoMetadata) IN Stop(p.w, p.gen)
      [] gen.agent = "researcher" ->
            LET p == Persist(w, gen, [search_performed |-> search_performed(gen.search)])
            IN  Stop(p.w, p.gen)
      [] gen.agent = "knowledge" ->
            LET p == Persist(w, gen, [document |-> w.document.document_name])
            IN  Stop(p.w, p.gen)
      [] gen.agent = "creative" ->
            LET p == Persist(w, gen, CreativeMetadata(gen.task_type, w.active_game))
            IN  Stop(set_game_state(p.w, gen.user_id, w.active_game), p.gen)

ImageNotice == <<"\n\n**Generating image locally (this may take a few minutes)...**\n\n">>

ImageDone == <<"\n**Image generation complete!**\n">>

\* for chunk in self.create_response_stream(...): full_response += chunk;
\* yield chunk -- and what follows the loop
Drain(w, gen) ==
    IF gen.chunks # <<>>
    THEN Yield(w, [gen EXCEPT !.pc = "llm", !.chunks = Tail(@),
                              !.full_response = @ \o Head(gen.chunks)],
               Head(gen.chunks))
    ELSE IF gen.raises THEN Throw(w, gen)
    ELSE IF gen.agent = "creative" /\ should_generate_image(gen.task_type, gen.message)
    THEN Yield(w, [gen EXCEPT !.pc = "notice"], ImageNotice)
    ELSE Finish(w, gen)

\* the first pull: the code before the streaming loop
Open(w, gen, env) ==
    LET opened == [gen EXCEPT !.chunks = stream_completion(env.stream),
                              !.raises = env.stream.raises, !.llm_calls = 1,
                              !.memory_before = w.memory]
        task_type == _identify_creative_task(gen.message)
    IN  CASE gen.agent = "creative" ->
                Drain([w EXCEPT !.active_game = GameFor(task_type, LoadedGame(w, gen.user_id))],
                      [opened EXCEPT !.task_type = task_type,
                                     !.loaded = LoadedGame(w, gen.user_id)])
          [] gen.agent = "researcher" -> Drain(w, [opened EXCEPT !.search = env.search])
          [] gen.agent = "knowledge" /\ NothingIngested(w) ->
                Yield(w, [gen EXCEPT !.pc = "nodoc", !.full_response = NoDocumentsResponse,
                                     !.memory_before = w.memory],
                      NoDocumentsResponse)
          [] OTHER -> Drain(w, opened)

\* next(agent.process_stream(user_id, message))
process_stream_next(w, gen, env) ==
    CASE gen.pc = "start" -> Open(w, gen, env)
      [] gen.pc = "llm" -> Drain(w, gen)
      [] gen.pc = "nodoc" ->
            LET p == Persist(w, gen, [document |-> "None"]) IN Stop(p.w, p.gen)
      [] gen.pc = "notice" ->
            IF HasImagePrompt(gen.full_response, gen.message)
            THEN Yield(w, [gen EXCEPT !.pc = "embed", !.full_response = @ \o ImageEmbed],
                       ImageEmbed)
            ELSE Finish(w, gen)
      [] gen.pc = "embed" -> Yield(w, [gen EXCEPT !.pc = "final"], ImageDone)
      [] gen.pc = "final" -> Finish(w, gen)

----------------------------------------------------------------------------
(* Orchestrator.process_message_stream: a generator, advanced one pull at   *)
(* a time by its consumer.  streams[user_id] is its frame.                  *)

MetadataItem(primary_agent, reasoning) ==
    [type |-> "metadata", primary_agent |-> primary_agent, routing_reasoning |-> reasoning]

ChunkItem(content) == [type |-> "chunk", content |-> content]

CompleteItem(full_response) == [type |-> "complete", full_response |-> full_response]

\* the first pull: route, then yield the metadata item
stream_start(user_id, message, route) ==
    LET routing_decision == _route_message(message, route).value
        primary_agent == Get(routing_decision, "primary_agent", "chat")
    IN  [pc |-> "routed", message |-> message, primary_agent |-> primary_agent,
         full_response |-> <<>>, extracted |-> <<>>,
         items |-> <<MetadataItem(primary_agent, Get(routing_decision, "reasoning", ""))>>]

\* self.agents.get(primary_agent, self.agents['chat'])
Handler(primary_agent) == IF primary_agent \in KnownAgents THEN primary_agent ELSE "chat"

\* str(e) of the exception the agent's stream raised
ErrorText == <<"Error streaming response: ", "generator failure">>

\* the run is over: the consumer's next pull ends the iteration
Over(w, s, outcome) == [w |-> w, over |-> TRUE, outcome |-> outcome, frame |-> s]

Suspended(w, s) == [w |-> w, over |-> FALSE, outcome |-> "suspended", frame |-> s]

\* after the loop: _update_memories, then yield the complete item
Complete(w, user_id, s, extract) ==
    Over(_update_memories(w, user_id, s.message, s.full_response, extract),
         [s EXCEPT !.pc = "complete", !.items = Append(@, CompleteItem(s.full_response)),
                   !.extracted = Append(@, Extraction(s.message, s.full_response,
                                                      Len(s.items)))],
         "complete")

\* what the loop does with the outcome r of one pull of the agent's stream,
\* inside the try; a chunk an agent yields is never empty (stream_completion
\* drops empty deltas, the fixed notices are not empty), so every chunk
\* passes `if chunk:`
Pulled(user_id, s, r, env) ==
    CASE r.kind = "yield" ->
            Suspended(r.w, [s EXCEPT !.pc = "agent", !.gen = r.gen,
                                     !.full_response = @ \o r.chunk,
                                     !.items = Append(@, ChunkItem(r.chunk))])
      [] r.kind = "raise" ->
            Suspended(r.w, [s EXCEPT !.pc = "after_loop", !.gen = r.gen,
                                     !.full_response = @ \o ErrorText,
                                     !.items = Append(@, ChunkItem(ErrorText))])
      [] r.kind = "stop" -> Complete(r.w, user_id, [s EXCEPT !.gen = r.gen], env.extract)

Pull(w, user_id, s, env) == Pulled(user_id, s, process_stream_next(w, s.gen, env), env)

\* the blocking call of a stub whose deltas are env.stream.deltas
Blocking(env) ==
    [llm |-> [raises |-> env.stream.raises, text |-> Concat(env.stream.deltas)],
     search |-> env.search]

\* the frame once the agent's stream exists; sync is what the agent's process
\* does for the same user, message, storage and stub
Streaming(s, gen, env, sync) ==
    [s @@ [gen |-> gen, stream_raises |-> env.stream.raises,
           sync |-> [raised |-> sync.raised, response |-> sync.response]]
     EXCEPT !.pc = "agent"]

OpenAgent(w, user_id, s, agent, env) ==
    Pull(w, user_id,
         Streaming(s, NewStream(agent, user_id, s.message), env,
                   process(agent, w, user_id, s.message, Blocking(env))),
         env)

\* a later pull of the consumer
stream_next(w, user_id, s, env) ==
    CASE s.pc = "routed" ->
            IF s.primary_agent \in Unhashable
            THEN Over(w, s, "raised")                     \* TypeError: unhashable
            ELSE OpenAgent(w, user_id, s, Handler(s.primary_agent), env)
      [] s.pc = "agent" -> Pull(w, user_id, s, env)
      [] s.pc = "after_loop" -> Complete(w, user_id, s, env.extract)

----------------------------------------------------------------------------
(* The assistant: a request arrives for a user, synchronously               *)
(* (process_message) or streamed (process_message_stream), or a document    *)
(* is ingested.                                                             *)

Messages ==
    { <<"h","e","l","l","o">>,
      <<"t","o","d","o">>,
      <<"m","y"," ","t","a","s","k","s">>,
      <<"p","l","a","y">> }

Failure == [raises |-> TRUE, text |-> <<>>]

Reply(text) == [raises |-> FALSE, text |-> text]

\* what the routing call does
RouteReplies ==
    { Failure,
      Reply(<<"{", "pa:poet", "}">>),
      Reply(<<"{", "pa:[chat]", "}">>),
      Reply(<<"{", "pa:memory", "sa:[chat,productivity]", "re:because", "}">>),
      Reply(<<"{", "pa:chat", "sa:null", "}">>),
      Reply(<<"{", "pa:researcher", "sa:[memory]", "}">>),
      Reply(<<"{", "pa:knowledge", "}">>),
      Reply(<<"{", "pa:creative", "}">>),
      Reply(<<"{", "pa:productivity", "}">>) }

Prose == <<"Once upon a time there was a lighthouse.", "The end.">>

TaskDetails(priority) == <<"Sure:", "{", "ti:Buy milk", priority, "du:2025-01-01", "}">>

\* the texts an agent's call returns: two lines of prose, the task details,
\* the task details with a null priority
AgentTexts == {Prose, TaskDetails("pr:high"), TaskDetails("pr:null")}

\* the agents whose generator call raises
Outages == {{}, {"chat"}, KnownAgents}

\* what the streaming call does: deltas, one of them empty, then the end or
\* an exception
StreamReplies ==
    { [deltas |-> <<<<"Once upon a time there was a lighthouse.">>, <<>>, <<"The end.">>>>,
       raises |-> FALSE],
      [deltas |-> <<<<"Hi">>>>, raises |-> FALSE],
      [deltas |-> <<<<"Once upon a time there was a lighthouse.">>>>, raises |-> TRUE],
      [deltas |-> <<>>, raises |-> TRUE] }

NothingNotable == Reply(<<"[", "]">>)

Extracted(value) == Reply(<<"[", "{", "key:color", value, "}", "]">>)

\* what the extraction call does: nothing notable, a colour, an exception, a
\* fact under the key of the game state
ExtractReplies ==
    { NothingNotable, Extracted("value:blue"), Failure,
      Reply(<<"{", "key:__creative_game_state", "value:blue", "}">>) }

Searches == {"None", "organic"}

\* the searches that can make a difference: only the researcher searches
SearchesFor(primary_agent, secondary_agents) ==
    IF primary_agent = "researcher"
       \/ \E i \in 1..Len(secondary_agents.items) : secondary_agents.items[i] = "researcher"
    THEN Searches ELSE {"None"}

SearchesOf(routing_decision) ==
    SearchesFor(Get(routing_decision, "primary_agent", "chat"),
                Get(routing_decision, "secondary_agents", PyList(<<>>)))

NoStreamInFlight == \A u \in Users : streams[u] = Idle

Install(w) ==
    /\ conversations' = w.conversations
    /\ memory' = w.memory
    /\ tasks' = w.tasks
    /\ active_game' = w.active_game
    /\ document' = w.document

\* the secondary agents whose call raised
FailedSecondaries(calls) ==
    {calls[i].agent : i \in {j \in 1..Len(calls) : calls[j].role = "secondary" /\ calls[j].raised}}

\* the routing decision with the agents of `failed` taken off its list
Unlisted(routing_decision, failed) ==
    LET kept(agent_name) == agent_name \notin failed
    IN  IF "secondary_agents" \in DOMAIN routing_decision
        THEN [routing_decision EXCEPT !["secondary_agents"].items = SelectSeq(@, kept)]
        ELSE routing_decision

\* the call returned or raised: r is what it did, and unlisted what it would
\* have done had the secondary agents that failed not been listed
Returned(user_id, message, routing_decision, r, unlisted, down) ==
    /\ Install(r.w)
    /\ last' = [op |-> "process_message", user_id |-> user_id, message |-> message,
                routed |-> Get(routing_decision, "primary_agent", "chat"),
                secondary_agents |-> Get(routing_decision, "secondary_agents", PyList(<<>>)),
                raised |-> r.raised, calls |-> r.calls, extracted |-> r.extracted,
                down |-> down,
                result |-> IF r.raised THEN <<>> ELSE r.result,
                unlisted |-> [raised |-> unlisted.raised,
                              result |-> IF unlisted.raised THEN <<>> ELSE unlisted.result]]

Redispatched(user_id, message, routing_decision, inp, r) ==
    Returned(user_id, message, routing_decision, r,
             dispatch(World, user_id, message,
                      Unlisted(routing_decision, FailedSecondaries(r.calls)), inp),
             inp.down)

Dispatched(user_id, message, routing_decision, inp) ==
    Redispatched(user_id, message, routing_decision, inp,
                 dispatch(World, user_id, message, routing_decision, inp))

\* one call of Orchestrator.process_message
ProcessMessage(user_id, message, inp) ==
    /\ NoStreamInFlight
    /\ Dispatched(user_id, message, _route_message(message, inp.route).value, inp)
    /\ requests' = requests + 1
    /\ UNCHANGED <<streams, probe>>

\* process_message_stream is called and its consumer pulls the first item
StreamStart(user_id, message, route) ==
    /\ streams[user_id] = Idle
    /\ streams' = [streams EXCEPT ![user_id] = stream_start(user_id, message, route)]
    /\ requests' = requests + 1
    /\ last' = [op |-> "stream_start", user_id |-> user_id]
    /\ UNCHANGED <<conversations, memory, tasks, active_game, document, probe>>

\* the pull gave an item or ended the run: r is what it did
Resumed(user_id, r) ==
    /\ Install(r.w)
    /\ streams' = [streams EXCEPT ![user_id] = IF r.over THEN Idle ELSE r.frame]
    /\ last' = IF r.over
               THEN [op |-> "process_message_stream", user_id |-> user_id,
                     outcome |-> r.outcome, frame |-> r.frame]
               ELSE [op |-> "stream_next", user_id |-> user_id]

\* the consumer pulls the next item
StreamNext(user_id, env) ==
    /\ streams[user_id].pc \in {"routed", "agent", "after_loop"}
    /\ Resumed(user_id, stream_next(World, user_id, streams[user_id], env))
    /\ UNCHANGED <<requests, probe>>

\* the consumer drops the generator before it is exhausted
StreamAbandon(user_id) ==
    /\ streams[user_id].pc \in {"routed", "agent", "after_loop"}
    /\ streams' = [streams EXCEPT ![user_id] = Idle]
    /\ last' = [op |-> "process_message_stream", user_id |-> user_id,
                outcome |-> "abandoned", frame |-> streams[user_id]]
    /\ UNCHANGED <<conversations, memory, tasks, active_game, document, requests, probe>>

IngestResults == {"unreadable", "no text", "embedding failed", "ingested"}

\* KnowledgeAgent.ingest_document: the PDF cannot be read (nothing changes),
\* it has no text (chunks emptied), the embedding fails (chunks set, index
\* and name as before), or it is ingested
ingest_document(w, result) ==
    [w EXCEPT !.document =
        CASE result = "unreadable" -> @
          [] result = "no text" -> [@ EXCEPT !.chunks = FALSE]
          [] result = "embedding failed" -> [@ EXCEPT !.chunks = TRUE]
          [] result = "ingested" ->
                [index |-> TRUE, chunks |-> TRUE, document_name |-> "notes.pdf"]]

IngestDocument(result) ==
    /\ NoStreamInFlight
    /\ document' = ingest_document(World, result).document
    /\ requests' = requests + 1
    /\ last' = [op |-> "ingest_document", result |-> result]
    /\ UNCHANGED <<conversations, memory, tasks, active_game, streams, probe>>

\* a user may come back at most MaxFollowUps times after a stream that broke
MaxFollowUps == 2

\* the stream that has just ended was dropped by its consumer, or its
\* generator failed
Broken ==
    /\ last.op = "process_message_stream"
    /\ \/ last.outcome = "abandoned"
       \/ "gen" \in DOMAIN last.frame /\ last.frame.gen.pc = "failed"

\* the stream that broke: its message, what had been streamed, and the
\* number of turns the user had stored when it ended
BrokenStream ==
    IF last.op = "follow_up" THEN last.broken
    ELSE [message |-> last.frame.message,
          outcome |-> IF last.outcome = "abandoned" THEN "abandoned" ELSE "failed",
          partial |-> last.frame.full_response,
          stored |-> Len(OfUser(World, last.user_id))]

\* the collaborators while the user comes back: the routing call fails (the
\* keywords route), the agents' calls return prose, nothing is extracted
FollowUpInput ==
    [route |-> Failure, down |-> {}, text |-> Prose, search |-> "None",
     extract |-> NothingNotable]

\* what the user says when coming back
FollowUpMessages == {<<"h","e","l","l","o">>, <<"m","y"," ","t","a","s","k","s">>}

\* the user of a stream that broke sends a message, by process_message
FollowUp(message) ==
    /\ NoStreamInFlight
    /\ requests >= 1 /\ requests <= MaxFollowUps
    /\ Broken \/ last.op = "follow_up"
    /\ Install(process_message(World, last.user_id, message, FollowUpInput).w)
    /\ last' = [op |-> "follow_up", user_id |-> last.user_id, broken |-> BrokenStream,
                messages |-> Append(IF last.op = "follow_up" THEN last.messages ELSE <<>>,
                                    message)]
    /\ requests' = requests + 1
    /\ UNCHANGED <<streams, probe>>

----------------------------------------------------------------------------
(* The specification: the assistant has served some earlier requests (a     *)
(* prelude), and the next request is examined, whatever it is.              *)

MaxPrelude == 4

EmptyWorld ==
    [conversations |-> <<>>, memory |-> [u \in Users |-> <<>>], tasks |-> <<>>,
     active_game |-> NoGame, document |-> NoDocument]

Served(w, user_id, message, route, text, extract) ==
    process_message(w, user_id, message,
                    [route |-> route, down |-> {}, text |-> text, search |-> "None",
                     extract |-> extract]).w

\* the earlier requests, in the order they were made
PreludeStep(k, w) ==
    CASE k = 1 -> Served(w, 1, <<"t","o","d","o">>, Failure, TaskDetails("pr:low"),
                         Extracted("value:blue"))
      [] k = 2 -> Served(w, 1, <<"p","l","a","y">>, Failure, Prose, NothingNotable)
      [] k = 3 -> ingest_document(w, "ingested")
      [] k = 4 -> Served(w, 1, <<"t","o","d","o">>, Failure, TaskDetails("pr:high"),
                         Extracted("value:green"))
      [] k = 5 -> Served(w, 2, <<"t","o","d","o">>, Failure, Prose, Extracted("value:blue"))
      [] OTHER -> w

RECURSIVE AfterPrelude(_, _, _)
AfterPrelude(k, chosen, w) ==
    IF k > MaxPrelude THEN w
    ELSE AfterPrelude(k + 1, chosen, IF k \in chosen THEN PreludeStep(k, w) ELSE w)

Holds(w) ==
    /\ conversations = w.conversations
    /\ memory = w.memory
    /\ tasks = w.tasks
    /\ active_game = w.active_game
    /\ document = w.document

Init ==
    /\ \E chosen \in SUBSET (1..MaxPrelude) : Holds(AfterPrelude(1, chosen, EmptyWorld))
    /\ streams = [u \in Users |-> Idle]
    /\ last = [op |-> "none"]
    /\ requests = 0
    /\ probe = NoProbe

NoneMade == requests = 0

Next ==
    \/ /\ NoneMade
       /\ \E user_id \in Users, message \in Messages, route \in RouteReplies :
                \E down \in Outages, text \in AgentTexts, extract \in ExtractReplies,
                   search \in SearchesOf(_route_message(message, route).value) :
                    ProcessMessage(user_id, message,
                                   [route |-> route, down |-> down, text |-> text,
                                    search |-> search, extract |-> extract])
    \/ /\ NoneMade
       /\ \E user_id \in Users, message \in Messages, route \in RouteReplies :
            StreamStart(user_id, message, route)
    \/ \E user_id \in Users :
          /\ streams[user_id] # Idle
          /\ \E stream \in StreamReplies, extract \in ExtractReplies,
                search \in SearchesFor(streams[user_id].primary_agent, PyList(<<>>)) :
                StreamNext(user_id,
                           [stream |-> stream, search |-> search, extract |-> extract])
    \/ \E user_id \in Users : StreamAbandon(user_id)
    \/ /\ NoneMade
       /\ \E result \in IngestResults : IngestDocument(result)
    \/ \E message \in FollowUpMessages : FollowUp(message)

Spec == Init /\ [][Next]_vars

----------------------------------------------------------------------------
(* Claims about one request *)

SyncDone == last.op = "process_message"

StreamOver == last.op = "process_message_stream"

\* the run got as far as the agent's stream
AgentStreamed == StreamOver /\ "gen" \in DOMAIN last.frame

\* the agent's stream was consumed to its end
AgentExhausted == AgentStreamed /\ last.frame.gen.pc = "exhausted"

\* C1: one call of process_stream whose fragments are consumed to the end
\* adds exactly one turn for that user, tagged with the agent's name, for
\* every agent.
C1_StreamStoresOneTurn ==
    AgentExhausted =>
        /\ Len(last.frame.gen.added) = 1
        /\ last.frame.gen.added[1].user_id = last.user_id
        /\ last.frame.gen.added[1].agent_type = last.frame.gen.agent

\* C2: one call of the synchronous process that returns a response adds
\* exactly one turn for that user, tagged with the agent's name and carrying
\* the returned response, on every branch of every agent.
C2_ProcessStoresOneTurn ==
    SyncDone =>
        \A i \in 1..Len(last.calls) :
            ~last.calls[i].raised =>
                /\ Len(last.calls[i].added) = 1
                /\ last.calls[i].added[1].user_id = last.user_id
                /\ last.calls[i].added[1].agent_type = last.calls[i].agent
                /\ last.calls[i].added[1].message = last.message
                /\ last.calls[i].added[1].response = last.calls[i].response

\* a request whose primary (memory listing) and secondary (chat, then task
\* query) calls all returned
C2_Witness ==
    /\ SyncDone /\ ~last.raised /\ Len(last.calls) = 3
    /\ last.calls[1].agent = "memory"
    /\ last.calls[3].agent = "productivity"
    /\ last.message = <<"m","y"," ","t","a","s","k","s">>
    /\ Len(last.calls[3].response) > 1
    /\ \A i \in 1..3 : ~last.calls[i].raised /\ Len(last.calls[i].added) = 1

\* C3: a fully consumed run of process_message_stream yields one metadata
\* item first, then chunk items, then one complete item last, whose
\* full_response is the concatenation of the chunk contents.
C3_StreamItemOrder ==
    (StreamOver /\ last.outcome # "abandoned") =>
        LET items == last.frame.items
            n == Len(items)
        IN  /\ n >= 2
            /\ items[1].type = "metadata"
            /\ items[n].type = "complete"
            /\ \A i \in 2..(n - 1) : items[i].type = "chunk"
            /\ items[n].full_response = Concat([i \in 1..(n - 2) |-> items[i + 1].content])

\* C4: with a stub whose streamed fragments concatenate to the text its
\* blocking call returns, the concatenation of the fragments process_stream
\* yields equals what process returns for the same user, message and storage.
C4_StreamEqualsSync ==
    (AgentExhausted /\ ~last.frame.stream_raises) =>
        /\ ~last.frame.sync.raised
        /\ Concat(last.frame.gen.yielded) = last.frame.sync.response

Invoked(secondary_agents, primary_agent) ==
    {secondary_agents.items[i] : i \in 1..Len(secondary_agents.items)}
        \cap (KnownAgents \ {primary_agent})

\* C10: an exception raised by a secondary agent does not propagate and does
\* not change the primary result: response and primary_agent are what they
\* are when that agent is not listed, the failed agent is absent from
\* secondary_responses, every other listed secondary is invoked and reported.
C10_SecondaryFailureContained ==
    (SyncDone /\ FailedSecondaries(last.calls) # {}) =>
        /\ ~last.raised
        /\ ~last.unlisted.raised
        /\ last.result.response = last.unlisted.result.response
        /\ last.result.primary_agent = last.unlisted.result.primary_agent
        /\ \A agent \in FailedSecondaries(last.calls) :
                agent \notin DOMAIN last.result.secondary_responses
        /\ \A agent \in Invoked(last.secondary_agents, last.result.primary_agent)
                          \ FailedSecondaries(last.calls) :
                /\ agent \in DOMAIN last.result.secondary_responses
                /\ \E i \in 2..Len(last.calls) :
                        /\ last.calls[i].agent = agent /\ ~last.calls[i].raised
                        /\ last.calls[i].response = last.result.secondary_responses[agent]

\* the chat agent, listed first, failed; the productivity agent, listed after
\* it, answered
C10_Witness ==
    /\ SyncDone /\ ~last.raised
    /\ FailedSecondaries(last.calls) = {"chat"}
    /\ DOMAIN last.result.secondary_responses = {"productivity"}


\* the contents of the chunk items among `items`, in order
RECURSIVE ChunkContents(_)
ChunkContents(items) ==
    IF items = <<>> THEN <<>>
    ELSE IF Head(items).type = "chunk"
    THEN <<Head(items).content>> \o ChunkContents(Tail(items))
    ELSE ChunkContents(Tail(items))

\* the primary agent's process returned: the primary response is known
PrimaryReturned == SyncDone /\ Len(last.calls) >= 1 /\ ~last.calls[1].raised

\* C11: once the primary response is known the memory extractor is invoked
\* exactly once, on (message, primary response); in streaming mode after
\* every chunk item has been handed to the consumer; and whatever the
\* extraction does, the call returns the primary response (the stream
\* completes with the concatenation of its chunks).
C11_ExtractionOncePerMessage ==
    /\ PrimaryReturned =>
            /\ ~last.raised
            /\ last.extracted = <<Extraction(last.message, last.calls[1].response, 0)>>
            /\ last.result.response = last.calls[1].response
    /\ (AgentStreamed /\ last.outcome # "abandoned") =>
            /\ last.outcome = "complete"
            /\ last.frame.extracted =
                    <<Extraction(last.frame.message,
                                 Concat(ChunkContents(last.frame.items)),
                                 1 + Len(ChunkContents(last.frame.items)))>>
            /\ last.frame.items[Len(last.frame.items)].full_response =
                    Concat(ChunkContents(last.frame.items))


----------------------------------------------------------------------------
(* The memory store on its own: set_memory calls are made one after the    *)
(* other on an empty store, and extract_and_store_memories is applied to   *)
(* what they leave.  probe.writes is the log of the calls made.            *)

\* at most MaxWrites set_memory calls are made
MaxWrites == 3

\* extract_and_store_memories is applied to a store that at most MaxStored
\* calls have written
MaxStored == 1

\* the generator answers with an array of at most MaxElements elements
MaxElements == 2

MemoryKeys == {<<"color">>, <<"food">>}

MemoryValues == {<<"blue">>, <<"green">>}

\* an element with key and value, one without value, one without key, one
\* with key, value and context for another key
ElementShapes ==
    { <<"key:color", "value:blue">>, <<"key:color">>, <<"value:blue">>,
      <<"key:food", "value:green", "context:why">> }

RECURSIVE ElementLists(_)
ElementLists(n) ==
    IF n = 0 THEN {<<>>}
    ELSE ElementLists(n - 1)
            \cup {Append(l, e) : l \in {x \in ElementLists(n - 1) : Len(x) = n - 1},
                                 e \in ElementShapes}

ObjectText(element) == <<"{">> \o element \o <<"}">>

\* the elements written one after the other, a comma between two of them
RECURSIVE ElementsText(_)
ElementsText(elements) ==
    IF elements = <<>> THEN <<>>
    ELSE IF Len(elements) = 1 THEN ObjectText(Head(elements))
    ELSE ObjectText(Head(elements)) \o <<",">> \o ElementsText(Tail(elements))

ArrayText(elements) == <<"[">> \o ElementsText(elements) \o <<"]">>

\* what the generator answers to the extraction prompt: a JSON array, a bare
\* object, text that is no JSON, or an exception
ExtractionOutputs ==
    {[kind |-> "array", elements |-> l, llm |-> Reply(ArrayText(l))] :
            l \in ElementLists(MaxElements)}
        \cup {[kind |-> "object", elements |-> <<e>>, llm |-> Reply(ObjectText(e))] :
                    e \in ElementShapes}
        \cup {[kind |-> "prose", elements |-> <<>>, llm |-> Reply(<<"Nothing", "notable.">>)],
              [kind |-> "failure", elements |-> <<>>, llm |-> Failure]}

MemInit ==
    /\ SysInit
    /\ probe = [stage |-> "memory", writes |-> <<>>]

\* one call of DatabaseManager.set_memory
SetMemoryStep(user_id, key, value) ==
    /\ probe.stage = "memory"
    /\ Len(probe.writes) < MaxWrites
    /\ memory' = set_memory(World, user_id, key, value).memory
    /\ probe' = [probe EXCEPT !.writes =
                    Append(@, [user_id |-> user_id, key |-> key, value |-> value,
                               before |-> memory])]
    /\ UNCHANGED <<conversations, tasks, active_game, document, streams, last, requests>>

\* what one call of extract_and_store_memories did
ExtractionDone(user_id, output, r) ==
    /\ memory' = r.w.memory
    /\ probe' = [stage |-> "extracted", user_id |-> user_id, kind |-> output.kind,
                 elements |-> output.elements, before |-> memory,
                 stored_memories |-> r.stored_memories]

\* one call of MemoryAgent.extract_and_store_memories
ExtractStep(user_id, output) ==
    /\ probe.stage = "memory"
    /\ Len(probe.writes) <= MaxStored
    /\ ExtractionDone(user_id, output, extract_and_store_memories(World, user_id, output.llm))
    /\ UNCHANGED <<conversations, tasks, active_game, document, streams, last, requests>>

MemNext ==
    \/ \E user_id \in Users, key \in MemoryKeys, value \in MemoryValues :
            SetMemoryStep(user_id, key, value)
    \/ \E user_id \in Users, output \in ExtractionOutputs : ExtractStep(user_id, output)

SpecMem == MemInit /\ [][MemNext]_vars


----------------------------------------------------------------------------
(* The memory store's claims *)

ExtractionApplied == probe.stage = "extracted"

HasKeyAndValue(element) ==
    /\ \E i \in 1..Len(element) : MemberField(element[i]) = "key"
    /\ \E i \in 1..Len(element) : MemberField(element[i]) = "value"

\* the store `mem` after the elements of `kept` are upserted for the user, in order
RECURSIVE Upserted(_, _, _)
Upserted(mem, user_id, kept) ==
    IF kept = <<>> THEN mem
    ELSE Upserted(set_memory([memory |-> mem], user_id, JsonObject(Head(kept))["key"],
                             JsonObject(Head(kept))["value"]).memory,
                  user_id, Tail(kept))

\* C12: whatever the generator answers -- an array of 0, 1, 2 or more
\* elements, a bare object, text that cannot be parsed, an exception --
\* extract_and_store_memories upserts and returns exactly the elements that
\* have both key and value, in order, and drops the others; an output with
\* no element gives the empty list and leaves the store as it was.
C12_ExtractionParsesDefensively ==
    ExtractionApplied =>
        LET kept == SelectSeq(probe.elements, HasKeyAndValue)
        IN  /\ probe.stored_memories = [i \in 1..Len(kept) |-> JsonObject(kept[i])]
            /\ memory = Upserted(probe.before, probe.user_id, kept)


\* the store after the i-th logged call
AfterWrite(i) == IF i = Len(probe.writes) THEN memory ELSE probe.writes[i + 1].before

\* the keys and values stored for a user, whatever their order
Facts(mem, user_id) == {<<mem[user_id][i].key, mem[user_id][i].value>> : i \in 1..Len(mem[user_id])}

\* the logged calls made for (user_id, key)
WritesOf(user_id, key) ==
    {i \in 1..Len(probe.writes) :
        probe.writes[i].user_id = user_id /\ probe.writes[i].key = key}

\* C14: after any sequence of set_memory calls every (user_id, key) has at
\* most one stored fact, holding the value of the last call for that pair
\* (and none when no call was made for it); a call that repeats a stored
\* (user_id, key, value) leaves the stored keys and values as they were; a
\* call for one user leaves the other users' facts as they were.
C14_MemoryUpsert ==
    probe.stage = "memory" =>
        /\ \A u \in Users, k \in MemoryKeys :
              LET held == {i \in 1..Len(memory[u]) : memory[u][i].key = k}
              IN  IF WritesOf(u, k) = {} THEN held = {}
                  ELSE /\ Cardinality(held) = 1
                       /\ \A i \in held :
                            memory[u][i].value =
                                probe.writes[CHOOSE n \in WritesOf(u, k) :
                                                \A o \in WritesOf(u, k) : o <= n].value
        /\ \A i \in 1..Len(probe.writes) :
              LET c == probe.writes[i]
              IN  /\ <<c.key, c.value>> \in Facts(c.before, c.user_id) =>
                        Facts(AfterWrite(i), c.user_id) = Facts(c.before, c.user_id)
                  /\ \A v \in Users \ {c.user_id} : AfterWrite(i)[v] = c.before[v]

\* user 1's colour is written, written again unchanged and then overwritten,
\* while user 2 holds a colour of their own
C14_Witness ==
    /\ probe.stage = "memory"
    /\ \E i, j, k \in 1..Len(probe.writes) :
          /\ i < j /\ j < k
          /\ probe.writes[i].user_id = 1 /\ probe.writes[i].key = <<"color">>
          /\ probe.writes[j].user_id = 1 /\ probe.writes[j].key = <<"color">>
          /\ probe.writes[j].value = probe.writes[i].value
          /\ probe.writes[k].user_id = 1 /\ probe.writes[k].key = <<"color">>
          /\ probe.writes[k].value # probe.writes[i].value
          /\ memory[1] = <<[key |-> <<"color">>, value |-> probe.writes[k].value]>>

----------------------------------------------------------------------------
(* More claims about one request *)

\* the game stored for the user in the memory table `mem`; "absent" when
\* no readable game state is stored
StoredGame(mem, user_id) ==
    IF Truthy(get_game_state([memory |-> mem], user_id))
    THEN Get(get_game_state([memory |-> mem], user_id).value, "active_game", NoGame)
    ELSE "absent"

\* a creative turn of the user has completed, by process or by a stream
\* consumed to its end: what the memory table held before and after
CreativeTurns ==
    (IF SyncDone
     THEN {[message |-> last.message, before |-> last.calls[i].memory_before,
            after |-> last.calls[i].memory_after] :
                i \in {j \in 1..Len(last.calls) :
                            last.calls[j].agent = "creative" /\ ~last.calls[j].raised}}
     ELSE {})
    \cup
    (IF AgentExhausted /\ last.frame.gen.agent = "creative"
     THEN {[message |-> last.frame.message, before |-> last.frame.gen.memory_before,
            after |-> last.frame.gen.memory_after]}
     ELSE {})

\* C15: when the user's stored active game is a game type and the user's
\* next creative turn has a message of a non-game type, the active game
\* stored for the user once that turn has completed is null.
C15_GameClearedOnSwitch ==
    \A t \in CreativeTurns :
        (/\ StoredGame(t.before, last.user_id) \in GameTasks
         /\ _identify_creative_task(t.message) \in OtherCreativeTasks)
            => StoredGame(t.after, last.user_id) = NoGame

\* user 1, whose stored game is word_game, says hello to the creative agent,
\* by process
C15_Witness ==
    /\ PrimaryReturned /\ last.calls[1].agent = "creative" /\ last.user_id = 1
    /\ StoredGame(last.calls[1].memory_before, 1) = "word_game"
    /\ _identify_creative_task(last.message) = "general_creative"
    /\ StoredGame(last.calls[1].memory_after, 1) = NoGame

\* the same, by a stream consumed to its end
C15_StreamWitness ==
    /\ AgentExhausted /\ last.frame.gen.agent = "creative" /\ last.user_id = 1
    /\ StoredGame(last.frame.gen.memory_before, 1) = "word_game"
    /\ _identify_creative_task(last.frame.message) = "general_creative"
    /\ StoredGame(last.frame.gen.memory_after, 1) = NoGame

\* C16: the game-state fact belongs to the creative agent: the memory
\* agent's listing never shows it, and a request in which the creative agent
\* is not called (memory extraction included) leaves it as it was.
C16_GameStateOwnedByCreative ==
    SyncDone =>
        /\ \A i \in 1..Len(last.calls) :
                (last.calls[i].agent = "memory" /\ ~last.calls[i].raised) =>
                    \A n \in 1..Len(last.calls[i].response) :
                        <<last.calls[i].response[n]>> # GameStateKey
        /\ (Len(last.calls) >= 1 /\ \A i \in 1..Len(last.calls) : last.calls[i].agent # "creative")
                => get_memory([memory |-> memory], last.user_id, GameStateKey)
                        = get_memory([memory |-> last.calls[1].memory_before],
                                     last.user_id, GameStateKey)

\* C17: with no ingested document the knowledge agent answers with the
\* fixed no-documents response, by process and by a stream consumed to its
\* end alike: the generator is not called, and exactly one turn is stored,
\* holding that response.
C17_NoDocumentShortCircuit ==
    NothingIngested(World) =>
        /\ SyncDone =>
              \A i \in 1..Len(last.calls) :
                  last.calls[i].agent = "knowledge" =>
                      /\ ~last.calls[i].raised
                      /\ last.calls[i].response = NoDocumentsResponse
                      /\ last.calls[i].llm_calls = 0
                      /\ Len(last.calls[i].added) = 1
                      /\ last.calls[i].added[1].response = NoDocumentsResponse
        /\ (AgentExhausted /\ last.frame.gen.agent = "knowledge") =>
              /\ last.frame.gen.yielded = <<NoDocumentsResponse>>
              /\ last.frame.gen.llm_calls = 0
              /\ Len(last.frame.gen.added) = 1
              /\ last.frame.gen.added[1].response = NoDocumentsResponse

\* nothing is ingested and every generator call fails: the knowledge agent
\* still answers, by process
C17_Witness ==
    /\ NothingIngested(World) /\ SyncDone /\ last.down = KnownAgents
    /\ Len(last.calls) = 1 /\ last.calls[1].agent = "knowledge"
    /\ last.result.response = NoDocumentsResponse
    /\ Len(last.calls[1].added) = 1

\* the same, by a stream consumed to its end
C17_StreamWitness ==
    /\ NothingIngested(World) /\ AgentExhausted /\ last.frame.gen.agent = "knowledge"
    /\ last.frame.full_response = NoDocumentsResponse
    /\ Len(last.frame.gen.added) = 1

\* what the generator had delivered of the fragments an agent yielded: the
\* creative agent's notices are its own
Delivered(yielded) ==
    LET generated(chunk) == chunk \notin {ImageNotice, ImageDone}
    IN  Concat(SelectSeq(yielded, generated))

\* the messages of the turns the user has stored since the stream broke
StoredSince(broken) ==
    LET turns == OfUser(World, last.user_id)
    IN  [i \in 1..(Len(turns) - broken.stored) |-> turns[broken.stored + i].message]

\* C18: a turn is written only with a response that is fully known.  A
\* stream that its consumer dropped or whose generator failed has stored no
\* turn; a turn that a stream did store was written once the generator had
\* delivered everything and holds all of it; and the turns the user stores
\* afterwards are those of the later requests, one each, in request order.
C18_NoPartialTurn ==
    /\ (Broken /\ "gen" \in DOMAIN last.frame) => last.frame.gen.added = <<>>
    /\ (AgentStreamed /\ last.frame.gen.added # <<>>) =>
            /\ last.frame.gen.pc = "exhausted"
            /\ last.frame.gen.chunks = <<>> /\ ~last.frame.gen.raises
            /\ \A i \in 1..Len(last.frame.gen.added) :
                    last.frame.gen.added[i].response = Delivered(last.frame.gen.yielded)
    /\ last.op = "follow_up" => StoredSince(last.broken) = last.messages

\* a stream was dropped after it had yielded text; the user came back twice,
\* with two different messages
C18_Witness ==
    /\ last.op = "follow_up"
    /\ last.broken.outcome = "abandoned" /\ last.broken.partial # <<>>
    /\ Len(last.messages) = 2 /\ last.messages[1] # last.messages[2]
    /\ StoredSince(last.broken) = last.messages

\* the generator failed after its first fragment; the user came back
C18_FailedWitness ==
    /\ last.op = "follow_up"
    /\ last.broken.outcome = "failed" /\ Len(last.broken.partial) > 2
    /\ StoredSince(last.broken) = last.messages

\* the turns the calls of one request added, in the order they were stored
RECURSIVE TurnsAdded(_)
TurnsAdded(calls) ==
    IF calls = <<>> THEN <<>> ELSE Head(calls).added \o TurnsAdded(Tail(calls))

\* C19: a message that process_message handles adds exactly one turn to the
\* user's history, also when secondary agents are listed and invoked.
C19_OneTurnPerMessage ==
    (SyncDone /\ ~last.raised) =>
        /\ Len(TurnsAdded(last.calls)) = 1
        /\ TurnsAdded(last.calls)[1].user_id = last.user_id
        /\ TurnsAdded(last.calls)[1].message = last.message

\* C20: when the routing call answers with a primary_agent that is not a
\* known agent, the message is handled by the agent that _fallback_routing
\* gives for it, by process_message and by process_message_stream, and
\* nothing is raised.
C20_UnknownTagFallsBack ==
    /\ (SyncDone /\ last.routed \notin KnownAgents /\ last.down = {}) =>
            /\ ~last.raised
            /\ last.calls[1].agent = _fallback_routing(last.message)["primary_agent"]
    /\ (StreamOver /\ last.outcome # "abandoned"
            /\ last.frame.primary_agent \notin KnownAgents) =>
            /\ last.outcome = "complete"
            /\ last.frame.gen.agent = _fallback_routing(last.frame.message)["primary_agent"]

\* C13: when no call of the generator fails, process_message returns a
\* result whatever structured output the generator gave: any routing JSON
\* (secondary_agents null included), any task details (a null priority
\* included), any memory-extraction output.
C13_MalformedOutputNeverRaises ==
    (SyncDone /\ last.down = {}) => ~last.raised

----------------------------------------------------------------------------
(* Requests that interleave on one Orchestrator: the creative agent is one  *)
(* instance, and a stream of one user is suspended at each yield while      *)
(* another user's request runs.  The instances are freshly constructed on   *)
(* a database that holds the users' game states.                            *)

\* the requests made on the Orchestrator
MaxShared == 2

GameFact(text) == [key |-> GameStateKey, value |-> text]

\* what a user's memory table holds, newest first: nothing, a game, a game
\* with its data, a game and a fact stored after it (the last for user 1
\* only)
SharedMemories ==
    { <<>>,
      <<GameFact(<<"{", "ag:word_game", "}">>)>>,
      <<GameFact(<<"{", "ag:riddle", "gd:cat", "}">>)>>,
      <<Fact("color", "blue"), GameFact(<<"{", "ag:word_game", "}">>)>> }

SharedInit ==
    /\ conversations = <<>>
    /\ \E mine \in SharedMemories, other \in {m \in SharedMemories : Len(m) <= 1} :
            memory = [u \in Users |-> IF u = 1 THEN mine ELSE other]
    /\ tasks = <<>>
    /\ active_game = NoGame
    /\ document = NoDocument
    /\ streams = [u \in Users |-> Idle]
    /\ last = [op |-> "none"]
    /\ requests = 0
    /\ probe = NoProbe

\* a game, no game keyword, a riddle
CreativeMessages == {<<"p","l","a","y">>, <<"h","e","l","l","o">>, <<"r","i","d","d","l","e">>}

ToCreative == Reply(<<"{", "pa:creative", "}">>)

\* the collaborators of a request routed to the creative agent
SharedInput ==
    [route |-> ToCreative, down |-> {}, text |-> Prose, search |-> "None",
     extract |-> NothingNotable]

SharedStreams == {r \in StreamReplies : Len(r.deltas) = 1}

SharedNext ==
    \/ /\ requests < MaxShared
       /\ \E user_id \in Users, message \in CreativeMessages :
            ProcessMessage(user_id, message, SharedInput)
    \/ /\ requests < MaxShared
       /\ \E user_id \in Users, message \in CreativeMessages :
            StreamStart(user_id, message, ToCreative)
    \/ \E user_id \in Users :
          /\ streams[user_id] # Idle
          /\ \E stream \in SharedStreams :
                StreamNext(user_id, [stream |-> stream, search |-> "None",
                                     extract |-> NothingNotable])

SpecShared == SharedInit /\ [][SharedNext]_vars

\* C21: requests of different users that interleave share nothing but
\* storage: when a creative stream has been consumed to its end, the game
\* stored for its user and the active_game in the metadata of its turn are
\* the game that the user's own stored game and message give, whatever
\* other users' requests ran while the stream was suspended.
C21_NoSharedState ==
    (AgentExhausted /\ last.frame.gen.agent = "creative") =>
        /\ StoredGame(last.frame.gen.memory_after, last.user_id)
                = GameFor(last.frame.gen.task_type, last.frame.gen.loaded)
        /\ last.frame.gen.added[1].metadata.active_game
                = GameFor(last.frame.gen.task_type, last.frame.gen.loaded)

\* a creative call of process_message that returned
CreativeCalls ==
    IF SyncDone
    THEN {last.calls[i] : i \in {j \in 1..Len(last.calls) :
                                    last.calls[j].agent = "creative" /\ ~last.calls[j].raised}}
    ELSE {}

\* the pull of user_id's consumer in which the creative stream ends: the
\* agent stores its turn and the game state, and the run completes
CreativeStreamEnds(user_id) ==
    /\ streams[user_id] # Idle /\ streams'[user_id] = Idle
    /\ last'.op = "process_message_stream" /\ last'.user_id = user_id
    /\ "gen" \in DOMAIN last'.frame
    /\ last'.frame.gen.agent = "creative" /\ last'.frame.gen.pc = "exhausted"

\* C22: a completed creative turn reads the user's stored game state once,
\* before generating, and writes it once, after the response is known, also
\* when the game is the one it read and also on a freshly constructed
\* agent.  By process: the memory table after the call is the table before
\* it with one upsert of the user's game state, holding the game that the
\* state read and the message give.  By a stream: the pull that ends it
\* makes one upsert of the user's game state, holding the game recorded in
\* the turn, and the state the stream read at its start is the one stored
\* until then.  Nothing else in the memory table changes.
C22_GameStateResaved ==
    /\ [](\A c \in CreativeCalls :
            c.memory_after
                = set_game_state([memory |-> c.memory_before], last.user_id,
                                 GameFor(_identify_creative_task(last.message),
                                         LoadedGame([memory |-> c.memory_before],
                                                    last.user_id))).memory)
    /\ [][\A user_id \in Users :
            CreativeStreamEnds(user_id) =>
                /\ memory' = set_game_state([memory |-> memory], user_id,
                                            last'.frame.gen.added[1].metadata.active_game).memory
                /\ last'.frame.gen.loaded = LoadedGame([memory |-> memory], user_id)]_vars

\* the first request on fresh instances is a stream whose user holds the
\* game word_game and a fact stored after it; the message asks to play and
\* the stream is consumed to its end: the game is the same, and its fact
\* has become the user's newest
C22_Witness ==
    /\ requests = 1 /\ AgentExhausted /\ last.frame.gen.agent = "creative"
    /\ last.frame.message = <<"p","l","a","y">>
    /\ last.frame.gen.loaded = "word_game"
    /\ Len(last.frame.gen.memory_before[last.user_id]) = 2
    /\ last.frame.gen.memory_before[last.user_id][2].key = GameStateKey
    /\ memory[last.user_id][1] = GameFact(<<"{", "ag:word_game", "}">>)
    /\ Len(memory[last.user_id]) = 2

\* the same by process
C22_SyncWitness ==
    /\ requests = 1 /\ CreativeCalls # {}
    /\ last.message = <<"p","l","a","y">>
    /\ Len(last.calls[1].memory_before[last.user_id]) = 2
    /\ last.calls[1].memory_before[last.user_id][2] = GameFact(<<"{", "ag:word_game", "}">>)
    /\ memory[last.user_id][1] = GameFact(<<"{", "ag:word_game", "}">>)

\* C28: after a completed creative turn the stored game state is given by
\* the turn's message alone: it holds the game type when the message is
\* classified as a game and null otherwise, whatever was stored before, and
\* holds nothing else (game_data stored before is gone).
C28_GameFromMessageOnly ==
    \A t \in CreativeTurns :
        /\ ~get_game_state([memory |-> t.after], last.user_id).none
        /\ get_game_state([memory |-> t.after], last.user_id).value
                = [active_game |->
                        IF _identify_creative_task(t.message) \in GameTasks
                        THEN _identify_creative_task(t.message) ELSE NoGame]

\* C23: the memory agent answers from the stored memory facts and never
\* calls the text generator, by process and by process_stream alike.
C23_MemoryAnswersFromStore ==
    /\ SyncDone =>
            \A i \in 1..Len(last.calls) :
                (last.calls[i].agent = "memory" /\ ~last.calls[i].raised) =>
                    last.calls[i].llm_calls = 0
    /\ (AgentStreamed /\ last.frame.gen.agent = "memory") =>
            /\ last.frame.gen.llm_calls = 0
            /\ last.frame.gen.pc # "failed"

----------------------------------------------------------------------------
(* The agents on their own: an agent's process is called directly, one     *)
(* call after the other, and probe holds what the last call was given and  *)
(* what it did.                                                             *)

\* the calls made
MaxCalls == 2

AgentInit ==
    /\ SysInit
    /\ probe = [stage |-> "agents"]

\* the turns r.w holds beyond those stored before the call
TurnsStored(r) ==
    SubSeq(r.w.conversations, Len(conversations) + 1, Len(r.w.conversations))

\* what one call of ResearcherAgent.process did
ResearchDone(user_id, search, r) ==
    /\ Install(r.w)
    /\ probe' = [stage |-> "research", user_id |-> user_id, search |-> search,
                 additional_context |-> research_context(search),
                 raised |-> r.raised, stored |-> TurnsStored(r)]

\* one call of ResearcherAgent.process
ResearchStep(user_id, message, search, llm) ==
    /\ requests < MaxCalls
    /\ ResearchDone(user_id, search,
                    ResearcherAgent_process(World, user_id, message,
                                            [llm |-> llm, search |-> search]))
    /\ requests' = requests + 1
    /\ UNCHANGED <<streams, last>>

\* a task-creation message of more than 100 characters
LongTodo == <<"t","o","d","o"," ">> \o [i \in 1..100 |-> "x"]

TaskCreationMessages == {<<"t","o","d","o">>, LongTodo}

\* what the generator answers to the extraction prompt: prose, the details
\* of the task, the details with a null priority, a title alone, or an
\* exception
TaskReplies ==
    { Reply(Prose), Reply(TaskDetails("pr:high")), Reply(TaskDetails("pr:null")),
      Reply(<<"{", "ti:Buy milk", "}">>), Failure }

\* what one call of ProductivityAgent.process did
ProductivityDone(stage, user_id, message, llm, r) ==
    /\ Install(r.w)
    /\ probe' = [stage |-> stage, user_id |-> user_id, message |-> message, llm |-> llm,
                 tasks_before |-> tasks, raised |-> r.raised,
                 response |-> r.response, llm_calls |-> r.llm_calls,
                 stored |-> TurnsStored(r)]

\* one call of ProductivityAgent.process with a message that asks for a task
TaskCreationStep(user_id, message, llm) ==
    /\ requests < MaxCalls
    /\ _is_task_creation(message)
    /\ ProductivityDone("task_creation", user_id, message, llm,
                        ProductivityAgent_process(World, user_id, message,
                                                  [llm |-> llm, search |-> "None"]))
    /\ requests' = requests + 1
    /\ UNCHANGED <<streams, last>>

AgentNext ==
    \/ \E user_id \in Users, message \in Messages, search \in SearchResults,
          llm \in {Failure, Reply(Prose), Reply(<<"Hi">>)} :
            ResearchStep(user_id, message, search, llm)
    \/ \E user_id \in Users, message \in TaskCreationMessages, llm \in TaskReplies :
            TaskCreationStep(user_id, message, llm)

SpecAgent == AgentInit /\ [][AgentNext]_vars

\* C24: when the web search fails or returns no results, the researcher
\* hands the generator the instruction to answer from general knowledge,
\* without a search-results block, and the stored turn's search_performed
\* is false; search_performed is true only when at least one search result
\* was handed to the generator.
C24_UngroundedIsMarked ==
    (probe.stage = "research" /\ ~probe.raised) =>
        /\ Len(probe.stored) = 1
        /\ probe.search # "organic" =>
                /\ probe.additional_context = NoSearchResults
                /\ ~probe.stored[1].metadata.search_performed
        /\ probe.stored[1].metadata.search_performed => probe.search = "organic"

\* the task the claim expects for the message and the generator's text
ExpectedTask(user_id, message, text) ==
    IF Truthy(parse_json_response(text))
    THEN [user_id |-> user_id,
          title |-> Get(parse_json_response(text).value, "title", <<"New Task">>),
          description |-> Get(parse_json_response(text).value, "description", PyNone),
          priority |-> Get(parse_json_response(text).value, "priority", <<"medium">>),
          status |-> "pending",
          due_date |-> Get(parse_json_response(text).value, "due_date", PyNone)]
    ELSE [user_id |-> user_id, title |-> Prefix(message, 100), description |-> PyNone,
          priority |-> <<"medium">>, status |-> "pending", due_date |-> PyNone]

\* C25: a productivity message that asks for a task creates exactly one
\* task for the user -- with the title, description, priority and due date
\* extracted when the generator's output parses, otherwise with the first
\* 100 characters of the message as title and priority medium -- stores one
\* turn and raises nothing.
C25_TaskCreated ==
    (probe.stage = "task_creation" /\ ~probe.llm.raises) =>
        /\ ~probe.raised
        /\ tasks = Append(probe.tasks_before,
                          ExpectedTask(probe.user_id, probe.message, probe.llm.text))
        /\ Len(probe.stored) = 1
        /\ probe.stored[1].user_id = probe.user_id
        /\ probe.stored[1].message = probe.message

----------------------------------------------------------------------------
(* The task query on its own: the task table holds tasks of both users,    *)
(* pending and completed, of every priority, and a user asks for the       *)
(* tasks.                                                                   *)

\* the pending tasks of user 1
MaxTasks == 11

\* the queries made
MaxQueries == 2

TaskTitles == [i \in 1..16 |-> <<"T", Numerals[i]>>]

\* the priorities stored, a task creation storing the text the generator gave
StoredPriorities == <<"low", "high", "medium", "urgent">>

StoredTask(user_id, title, priority, status) ==
    [user_id |-> user_id, title |-> title, description |-> PyNone,
     priority |-> <<priority>>, status |-> status, due_date |-> PyNone]

\* a pending task of user 2 and a completed task of user 1, both of high
\* priority
OtherTasks ==
    <<StoredTask(2, <<"theirs">>, "high", "pending"),
      StoredTask(1, <<"done">>, "high", "completed")>>

\* the task table, oldest first: n pending tasks of user 1 whose priorities
\* go round StoredPriorities from `shift` on, after the other tasks if any
TaskTable(n, shift, others) ==
    (IF others THEN OtherTasks ELSE <<>>)
    \o [i \in 1..n |-> StoredTask(1, TaskTitles[i],
                                  StoredPriorities[((i + shift) % 4) + 1], "pending")]

TaskInit ==
    /\ conversations = <<>>
    /\ memory = [u \in Users |-> <<>>]
    /\ \E n \in 0..MaxTasks, shift \in 0..3, others \in BOOLEAN :
            tasks = TaskTable(n, shift, others)
    /\ active_game = NoGame
    /\ document = NoDocument
    /\ streams = [u \in Users |-> Idle]
    /\ last = [op |-> "none"]
    /\ requests = 0
    /\ probe = [stage |-> "tasks"]

TaskQueryMessages == {<<"m","y"," ","t","a","s","k","s">>}

\* one call of ProductivityAgent.process with a message that asks for the tasks
TaskQueryStep(user_id, message) ==
    /\ requests < MaxQueries
    /\ ~_is_task_creation(message) /\ _is_task_query(message)
    /\ ProductivityDone("task_query", user_id, message, Failure,
                        ProductivityAgent_process(World, user_id, message,
                                                  [llm |-> Failure, search |-> "None"]))
    /\ requests' = requests + 1
    /\ UNCHANGED <<streams, last>>

TaskNext == \E user_id \in Users, message \in TaskQueryMessages : TaskQueryStep(user_id, message)

SpecTasks == TaskInit /\ [][TaskNext]_vars

\* the titles the response lists, in the order it lists them
ListedTitles(response) ==
    LET title(tok) == tok \in {TaskTitles[i][2] : i \in 1..16} \cup {"theirs", "done"}
        after_T(k) == k > 1 /\ response[k - 1] = "T"
        marked == [k \in 1..Len(response) |->
                        IF response[k] \in {"theirs", "done"} \/ after_T(k)
                        THEN response[k] ELSE "-"]
        kept(tok) == tok # "-"
    IN  SelectSeq(marked, kept)

\* the stored tasks whose title ends in the token
TasksTitled(tok) ==
    {i \in 1..Len(tasks) : tasks[i].title[Len(tasks[i].title)] = tok}

PendingOf(user_id) ==
    {i \in 1..Len(tasks) : tasks[i].user_id = user_id /\ tasks[i].status = "pending"}

ClaimedRank(priority) ==
    CASE priority = <<"high">> -> 0 [] priority = <<"medium">> -> 1
      [] priority = <<"low">> -> 2 [] OTHER -> 1

Ranked(priority) == priority \in {<<"high">>, <<"medium">>, <<"low">>}

\* C26: a task query lists only the user's pending tasks, every high one
\* before every medium one and every medium one before every low one, and
\* never more than 10 of them.
C26_PendingByPriority ==
    probe.stage = "task_query" =>
        LET listed == ListedTitles(probe.response)
        IN  /\ ~probe.raised
            /\ Len(listed) = Min(10, Cardinality(PendingOf(probe.user_id)))
            /\ \A k \in 1..Len(listed) :
                    /\ TasksTitled(listed[k]) \subseteq PendingOf(probe.user_id)
                    /\ TasksTitled(listed[k]) # {}
                    /\ \A j \in 1..Len(listed) : j # k => listed[j] # listed[k]
            /\ \A j, k \in 1..Len(listed) :
                    \A a \in TasksTitled(listed[j]), b \in TasksTitled(listed[k]) :
                        (/\ j < k
                         /\ Ranked(tasks[a].priority) /\ Ranked(tasks[b].priority))
                            => ClaimedRank(tasks[a].priority) <= ClaimedRank(tasks[b].priority)

\* user 1 has 11 pending tasks of every priority, beside a completed one and
\* one of user 2, and asks for the tasks: ten are listed
C26_Witness ==
    /\ probe.stage = "task_query" /\ probe.user_id = 1
    /\ Cardinality(PendingOf(1)) = 11
    /\ Len(tasks) = 13
    /\ Len(ListedTitles(probe.response)) = 10
    /\ \E a, b \in PendingOf(1) : tasks[a].priority = <<"high">> /\ tasks[b].priority = <<"low">>

----------------------------------------------------------------------------
(* One more claim about the context assembler *)

\* C27: get_user_context never returns an empty string: it returns 'No
\* previous context available.' exactly when the user has neither stored
\* memories nor stored turns, and a non-empty rendering otherwise.
C27_ContextNeverEmpty ==
    ContextBuilt =>
        /\ probe.result # <<>>
        /\ (probe.result = <<"No previous context available.">>)
                <=> (OfUser(World, probe.user_id) = <<>> /\ memory[probe.user_id] = <<>>)

\* the context of a user without memories and without turns, beside another
\* user who has a turn
C27_Witness ==
    /\ ContextBuilt
    /\ OfUser(World, probe.user_id) = <<>> /\ memory[probe.user_id] = <<>>
    /\ conversations # <<>>
    /\ probe.result = <<"No previous context available.">>

\* the context of a user with memories and without turns
C27_MemoriesOnlyWitness ==
    /\ ContextBuilt
    /\ OfUser(World, probe.user_id) = <<>> /\ memory[probe.user_id] # <<>>
    /\ Len(probe.result) > 1

----------------------------------------------------------------------------
(* One more claim about one request *)

\* C29: when an agent's stream has stored its turn and the run of
\* process_message_stream has completed, the response of the stored turn is
\* the full_response of the complete item, the concatenation of the chunks
\* the consumer received.
C29_StoredEqualsStreamed ==
    (AgentExhausted /\ last.outcome = "complete" /\ last.frame.gen.added # <<>>) =>
        /\ last.frame.gen.added[1].response
                = last.frame.items[Len(last.frame.items)].full_response
        /\ last.frame.gen.added[1].response = Concat(ChunkContents(last.frame.items))

----------------------------------------------------------------------------
(* The keywords of the fallback router, one at a time: a message that is   *)
(* the keyword alone, or the keyword in a greeting, is routed.             *)

\* what the message has around the keyword
Paddings ==
    { [before |-> <<>>, after |-> <<>>],
      [before |-> <<"h","i"," ">>, after |-> <<>>],
      [before |-> <<>>, after |-> <<" ","o","k">>] }

KeywordInputs ==
    {[stage |-> "input", op |-> "keyword", tag |-> Priority[i], keyword |-> k,
      message |-> pad.before \o k \o pad.after] :
            i \in 1..Len(Priority), k \in UNION {KeywordsOf(tag) : tag \in KnownAgents \ {"chat"}},
            pad \in Paddings}

KeywordInit ==
    /\ SysInit
    /\ probe \in {inp \in KeywordInputs : inp.keyword \in KeywordsOf(inp.tag)}

\* _fallback_routing is applied to the message
KeywordStep ==
    /\ probe.stage = "input" /\ probe.op = "keyword"
    /\ probe' = [probe EXCEPT !.stage = "output"]
                    @@ [result |-> _fallback_routing(probe.message)]
    /\ UNCHANGED sysVars

KeywordNext == KeywordStep

SpecKeywords == KeywordInit /\ [][KeywordNext]_vars

\* the keywords of the sets checked before the set of `tag`
EarlierKeywords(tag) ==
    UNION {KeywordsOf(Priority[j]) :
                j \in {i \in 1..Len(Priority) :
                            \E n \in 1..Len(Priority) : Priority[n] = tag /\ i < n}}

\* C30: every keyword of the fallback router is effective: a message that
\* contains only that keyword is routed to the keyword's tag, that is, no
\* keyword contains a keyword of a set checked earlier.
C30_EveryKeywordEffective ==
    (probe.stage = "output" /\ probe.op = "keyword") =>
        /\ \A earlier \in EarlierKeywords(probe.tag) : ~Contains(probe.keyword, earlier)
        /\ probe.result.primary_agent = probe.tag

=============================================================================
